---- MODULE Spec2Model ----
(***************************************************************************)
(* Generation Orchestrator of the architectural visualisation app:         *)
(* App.tsx (handleGenerate, handleMasterStyleClick, handleApplyEdit and    *)
(* the controls that call them), ResultCard.tsx (the per-card edit state)  *)
(* and services/geminiService.ts (generateArchitecturalPrompt with its     *)
(* retry loop, applyMasterStyle, editArchitecturalImage).                  *)
(*                                                                         *)
(* Every async handler is cut at its awaits: one action per synchronous    *)
(* stretch.  Invocations in flight are kept in the set `tasks`, so that    *)
(* nothing in the model itself forbids two pipelines at once: only the     *)
(* guards of the controls do.                                              *)
(*                                                                         *)
(* Strings are sequences of symbols; a signal such as "503" is one symbol. *)
(*                                                                         *)
(* Two more components have specifications of their own over the same     *)
(* variables: optimizeUserPrompt of geminiService.ts (OptimizeSpec) and    *)
(* components/InpaintingCanvas.tsx, the mask canvas with its undo/redo     *)
(* history (CanvasSpec).  The canvas bitmap is a sequence of premultiplied *)
(* RGBA pixels, an ImageData snapshot a sequence of unpremultiplied ones.  *)
(*                                                                         *)
(* getBestAspectRatio of geminiService.ts (AspectSpec) and the coordinate  *)
(* mapping of draw in InpaintingCanvas.tsx (MapperSpec) compute with       *)
(* JavaScript Numbers: their arithmetic is IEEE 754 binary64 arithmetic,   *)
(* modelled exactly (round to nearest, ties to even) on natural numbers    *)
(* held as sequences of limbs.                                             *)
(***************************************************************************)
EXTENDS Integers, Sequences, FiniteSets, TLC

\* ------------------------------------------------------------- bounds
\* Pipelines (generate, style, edit) started in one behaviour: four, so that a
\* result is inserted into a history that already holds HistoryCap entries.
MaxInvocations == 4

\* ---------------------------------------------------------- constants
\* exportMask: if (data[i] > 20)
MaskThreshold == 20
MAX_RETRIES == 3
BackoffUnit == 2000
HistoryCap == 3
ErrorDetailLen == 100

\* Longest inputPrompt and response text of optimizeUserPrompt.
MaxPromptLen == 3

\* Gestures and clears begun on one canvas.
MaxCommits == 2

\* Pointer moves that paint within one gesture.
MaxMoves == 1

\* Source images given to one canvas (the first one when it is mounted).
MaxLoads == 2

\* Largest width and height of a sketch given to getBestAspectRatio, in units
\* of 100 pixels (the quotient width / height is the same double).
MaxDimension == 16

\* Largest width and height of the on-screen box of the canvas.
MaxBox == 5

\* ------------------------------------------------------------- values
Cards == {"original", "styled"}
NoTarget == "none"
NoMask == <<>>
Masks == {<<"mask1">>}
EditPrompts == {<<"brick">>}
Styles == {<<"noir">>}
SketchFiles == {"sketch1"}

\* response.text of the analysis call: empty or a description
Texts == {<<>>, <<"desc">>}

\* Failure texts of an image-synthesis attempt (err.message, or the refusal
\* text of a response without image data).
FailureMessages ==
  { <<"503">>, <<"Overloaded">>, <<"429">>, <<"RESOURCE_EXHAUSTED">>,
    <<"quota", "block">>, <<"Safety">>, <<"503", "Safety">>, <<"timeout">> }

\* characters of a prompt: a blank and a letter
Chars == {" ", "a"}

\* the strings of at most MaxPromptLen characters
Prompts == UNION {[1..n -> Chars] : n \in 0..MaxPromptLen}

\* response.text of the optimisation call: undefined, or a string
ResponseTexts == {[defined |-> FALSE, text |-> <<>>]} \cup
                 {[defined |-> TRUE, text |-> p] : p \in Prompts}

\* a source image, given by its number of pixels; 0 stands for no image
NoImage == 0
Images == {1, 2}

\* pixels of a canvas element that has not been sized yet (300 x 150 in a
\* browser, scaled down as the images are)
DefaultPixels == 1

\* fillStyle 'black', and the white exportMask writes
Black == <<0, 0, 0, 255>>
White == <<255, 255, 255, 255>>

\* a pixel <<r, g, b, a>>; the canvas bitmap holds premultiplied colours,
\* ImageData holds unpremultiplied ones
Transparent == <<0, 0, 0, 0>>

\* strokeStyle 'rgba(6, 182, 212, 0.7)', alpha in 8 bits
Highlight == <<6, 182, 212, 179>>

\* sketch.width / sketch.height missing
undefined == -1

\* what getBestAspectRatio can be given as width and as height
Dimensions == {undefined} \cup 0..MaxDimension

\* rect.left and rect.top of the on-screen box
Origins == {0, 1}

\* canvas.width x canvas.height of the raster
CanvasSizes == {[width |-> 1, height |-> 2], [width |-> 2, height |-> 1]}

\* values of the brush size slider: its minimum and its maximum
BrushSizes == {5, 100}

errorSketch == <<"errorSketch">>
errorGeneric == <<"errorGeneric">>
NoError == <<>>

QuotaMessage == <<"Daily Quota Exceeded.">>
SafetyMessage == <<"Safety Block.">>

\* PromptResult; NoResult stands for null (ids of real results are >= 1),
\* imageData 0 for undefined, error <<>> for undefined.
NoResult == [id |-> 0, prompt |-> <<>>, imageData |-> 0, error |-> <<>>, timestamp |-> 0]

VARIABLES
  sketch,           \* App: uploaded sketch images
  result,           \* App: original result slot
  styledResult,     \* App: master-filtered result slot
  history,          \* App: result history, most recent first
  status,           \* App: 'idle' | 'analyzing' | 'generating' | 'editing'
  error,            \* App: error banner (<<>> is null)
  editingTarget,    \* App: 'original' | 'styled' | none
  localEditMask,    \* ResultCard: mask held by each card
  localEditPrompt,  \* ResultCard: edit instruction typed in each card
  apiKey,           \* environment: an API key is configured
  now,              \* Date.now(), read when a result is created
  nInv,             \* pipelines started so far
  tasks,            \* invocations in flight (suspended at an await)
  last,             \* the invocation that completed most recently
  statusTrace,      \* status values since status last left idle
  optimization,     \* geminiService: the latest call of optimizeUserPrompt
  baseImage,        \* InpaintingCanvas: the baseImage prop (NoImage: not mounted)
  loading,          \* InpaintingCanvas: images whose onload has not fired yet
  raster,           \* InpaintingCanvas: the bitmap of the canvas element
  historyRef,       \* InpaintingCanvas: historyRef.current, ImageData snapshots
  historyStep,      \* InpaintingCanvas: index (from 0) of the current snapshot
  isDrawing,        \* InpaintingCanvas: a pointer gesture is open
  onMaskReady,      \* InpaintingCanvas: masks passed to onMaskReady by the latest event
  nLoads,           \* source images given to the canvas so far
  nCommits,         \* gestures and clears begun so far
  nMoves,           \* pointer moves that painted in the open gesture
  strokeStart,      \* the raster when the open gesture began
  canvasLast,       \* the latest event of the canvas and the state it found
  aspect,           \* geminiService: the latest call of getBestAspectRatio
  pointer           \* InpaintingCanvas: the latest pointer position draw mapped

\* the state of App and its ResultCards
appVars == <<sketch, result, styledResult, history, status, error, editingTarget,
             localEditMask, localEditPrompt, apiKey, now, nInv, tasks, last, statusTrace>>

\* the state of App and its ResultCards but for the masks the cards hold
appRest == <<sketch, result, styledResult, history, status, error, editingTarget,
             localEditPrompt, apiKey, now, nInv, tasks, last, statusTrace>>

\* the state of an InpaintingCanvas
canvasVars == <<baseImage, loading, raster, historyRef, historyStep, isDrawing,
                onMaskReady, nLoads, nCommits, nMoves, strokeStart, canvasLast>>

\* the latest evaluations of the two computations on Numbers
calcVars == <<aspect, pointer>>

vars == <<appVars, optimization, canvasVars, calcVars>>


\* ------------------------------------------------------------ helpers
Min(a, b) == IF a < b THEN a ELSE b

\* ------------------------------------------- IEEE 754 double arithmetic
\* JavaScript Numbers are binary64 values. A natural number too large for one
\* machine integer is a sequence of limbs, least significant first, without
\* leading zero limbs; <<>> is zero.
LimbBits == 15
Base == 2 ^ LimbBits

\* bits of the significand of a double
Precision == 53

\* extra quotient bits a division computes before it rounds
GuardBits == 75

RECURSIVE natOf(_)
natOf(n) == IF n = 0 THEN <<>> ELSE <<n % Base>> \o natOf(n \div Base)

RECURSIVE natTrim(_)
natTrim(a) ==
  IF a = <<>> THEN <<>>
  ELSE IF a[Len(a)] = 0 THEN natTrim(SubSeq(a, 1, Len(a) - 1))
  ELSE a

natRest(a) == IF a = <<>> THEN <<>> ELSE Tail(a)
natLow(a) == IF a = <<>> THEN 0 ELSE a[1]

\* the limbs of a shifted up by one limb
natUp(a) == IF a = <<>> THEN <<>> ELSE <<0>> \o a

RECURSIVE natAddCarry(_, _, _)
natAddCarry(a, b, c) ==
  IF a = <<>> /\ b = <<>> THEN (IF c = 0 THEN <<>> ELSE <<c>>)
  ELSE LET x == natLow(a) + natLow(b) + c IN
       <<x % Base>> \o natAddCarry(natRest(a), natRest(b), x \div Base)

natAdd(a, b) == natAddCarry(a, b, 0)

\* a - b for a >= b
RECURSIVE natSubBorrow(_, _, _)
natSubBorrow(a, b, c) ==
  IF a = <<>> THEN <<>>
  ELSE LET x == natLow(a) - natLow(b) - c IN
       <<x % Base>> \o natSubBorrow(natRest(a), natRest(b), IF x < 0 THEN 1 ELSE 0)

natSub(a, b) == natTrim(natSubBorrow(a, b, 0))

natLess(a, b) ==
  IF Len(a) # Len(b) THEN Len(a) < Len(b)
  ELSE \E i \in 1..Len(a) : a[i] < b[i] /\ \A j \in (i + 1)..Len(a) : a[j] = b[j]

\* a * k for 0 <= k < Base
RECURSIVE natMulCarry(_, _, _)
natMulCarry(a, k, c) ==
  IF a = <<>> THEN (IF c = 0 THEN <<>> ELSE <<c>>)
  ELSE LET x == a[1] * k + c IN
       <<x % Base>> \o natMulCarry(Tail(a), k, x \div Base)

natMulSmall(a, k) == IF k = 0 THEN <<>> ELSE natMulCarry(a, k, 0)

RECURSIVE natMul(_, _)
natMul(a, b) ==
  IF b = <<>> THEN <<>>
  ELSE natAdd(natMulSmall(a, b[1]), natUp(natMul(a, Tail(b))))

\* quotient q and remainder r of a by k, for 0 < k < Base
RECURSIVE natDivSmall(_, _)
natDivSmall(a, k) ==
  IF a = <<>> THEN [q |-> <<>>, r |-> 0]
  ELSE LET high == natDivSmall(Tail(a), k)
           x == high.r * Base + a[1] IN
       [q |-> IF high.q = <<>> /\ x \div k = 0 THEN <<>> ELSE <<x \div k>> \o high.q,
        r |-> x % k]

natBitLen(a) ==
  IF a = <<>> THEN 0
  ELSE LimbBits * (Len(a) - 1)
         + CHOOSE k \in 1..LimbBits : 2 ^ (k - 1) <= a[Len(a)] /\ a[Len(a)] < 2 ^ k

\* a * 2^s
natShl(a, s) ==
  IF a = <<>> THEN <<>>
  ELSE [i \in 1..(s \div LimbBits) |-> 0] \o natMulSmall(a, 2 ^ (s % LimbBits))

\* a \div 2^s
natShr(a, s) ==
  IF Len(a) <= s \div LimbBits THEN <<>>
  ELSE natDivSmall(SubSeq(a, (s \div LimbBits) + 1, Len(a)), 2 ^ (s % LimbBits)).q

\* a finite double is s * m * 2^e with s the sign, m a natural number below
\* 2^Precision that is odd or zero, e an integer; exponents stay far from the
\* limits of the format for the values that occur
Zero == [s |-> 1, m |-> <<>>, e |-> 0]

RECURSIVE canonical(_, _, _)
canonical(s, m, e) ==
  IF m = <<>> THEN Zero
  ELSE IF m[1] = 0 THEN canonical(s, Tail(m), e + LimbBits)
  ELSE IF m[1] % 2 = 0 THEN canonical(s, natShr(m, 1), e + 1)
  ELSE [s |-> s, m |-> m, e |-> e]

\* the double nearest to s * (m + t) * 2^e, ties to even; t = 0, or 0 < t < 1
\* when inexact says that bits below m were lost
round(s, m, e, inexact) ==
  LET drop == natBitLen(m) - Precision IN
  IF drop <= 0 THEN canonical(s, m, e)
  ELSE LET kept == natShr(m, drop)
           lost == natSub(m, natShl(kept, drop))
           half == natShl(<<1>>, drop - 1)
           up == \/ natLess(half, lost)
                 \/ lost = half /\ (inexact \/ kept[1] % 2 = 1) IN
       canonical(s, IF up THEN natAdd(kept, <<1>>) ELSE kept, e + drop)

\* an integer as a double
num(n) == IF n < 0 THEN canonical(-1, natOf(-n), 0) ELSE canonical(1, natOf(n), 0)

\* a / b for doubles whose divisor has a significand below Base (every integer
\* below Base has), b # 0
numDiv(a, b) ==
  IF a.m = <<>> THEN Zero
  ELSE LET d == natDivSmall(natShl(a.m, GuardBits), b.m[1]) IN
       round(a.s * b.s, d.q, a.e - b.e - GuardBits, d.r # 0)

\* a * b
numMul(a, b) == round(a.s * b.s, natMul(a.m, b.m), a.e + b.e, FALSE)

\* the significands of a and b at their common exponent Min(a.e, b.e)
aligned(a, b) ==
  LET e == Min(a.e, b.e) IN
  [a |-> natShl(a.m, a.e - e), b |-> natShl(b.m, b.e - e), e |-> e]

\* a - b
numSub(a, b) ==
  LET x == aligned(a, b) IN
  IF a.s # b.s THEN round(a.s, natAdd(x.a, x.b), x.e, FALSE)
  ELSE IF natLess(x.a, x.b) THEN round(-a.s, natSub(x.b, x.a), x.e, FALSE)
  ELSE round(a.s, natSub(x.a, x.b), x.e, FALSE)

\* Math.abs
abs(a) == [a EXCEPT !.s = 1]

\* a < b for doubles a >= 0, b >= 0
numLess(a, b) == LET x == aligned(a, b) IN natLess(x.a, x.b)

\* ------------------------------------------------------- strings, pixels
\* String.prototype.includes for a one-symbol needle
includes(msg, s) == \E i \in 1..Len(msg) : msg[i] = s

\* String.prototype.substring(0, n) / slice(0, n)
substring(msg, n) == SubSeq(msg, 1, Min(Len(msg), n))

\* Array.prototype.slice(0, n)
slice(xs, n) == SubSeq(xs, 1, Min(Len(xs), n))

\* String.prototype.trim
trim(str) ==
  LET kept == {i \in 1..Len(str) : str[i] # " "} IN
  IF kept = {} THEN <<>>
  ELSE SubSeq(str, CHOOSE i \in kept : \A j \in kept : i <= j,
                   CHOOSE i \in kept : \A j \in kept : j <= i)

\* n / d rounded to the nearest integer
RoundDiv(n, d) == (2 * n + d) \div (2 * d)

\* an unpremultiplied colour as the bitmap stores it
premultiply(c) ==
  <<RoundDiv(c[1] * c[4], 255), RoundDiv(c[2] * c[4], 255), RoundDiv(c[3] * c[4], 255), c[4]>>

\* a pixel of the bitmap as ImageData reports it
unpremultiply(p) ==
  IF p[4] = 0 THEN Transparent
  ELSE <<Min(255, RoundDiv(p[1] * 255, p[4])), Min(255, RoundDiv(p[2] * 255, p[4])),
         Min(255, RoundDiv(p[3] * 255, p[4])), p[4]>>

\* globalCompositeOperation 'source-over' on premultiplied pixels
sourceOver(src, dst) ==
  [k \in 1..4 |-> Min(255, src[k] + RoundDiv(dst[k] * (255 - src[4]), 255))]

\* a bitmap of n transparent pixels
blank(n) == [i \in 1..n |-> Transparent]

\* ctx.getImageData(0, 0, canvas.width, canvas.height)
getImageData(bitmap) == [i \in 1..Len(bitmap) |-> unpremultiply(bitmap[i])]

\* ctx.putImageData(imageData, 0, 0)
putImageData(bitmap, imageData) ==
  [i \in 1..Len(bitmap) |->
     IF i <= Len(imageData) THEN premultiply(imageData[i]) ELSE bitmap[i]]

\* ctx.stroke() of the segment ending at pixel p, in the highlight colour
stroke(bitmap, p) == [bitmap EXCEPT ![p] = sourceOver(premultiply(Highlight), bitmap[p])]

\* the image exportMask encodes: the bitmap drawn over black, every pixel whose
\* red channel exceeds the threshold turned white
maskOf(bitmap) ==
  [i \in 1..Len(bitmap) |->
     LET data == unpremultiply(sourceOver(bitmap[i], <<0, 0, 0, 255>>)) IN
     IF data[1] > MaskThreshold THEN <<255, 255, 255, data[4]>> ELSE data]

isQuota(msg) == includes(msg, "429") \/ includes(msg, "quota") \/ includes(msg, "RESOURCE_EXHAUSTED")

isOverloaded(msg) == includes(msg, "503") \/ includes(msg, "Overloaded")

isSafety(msg) == includes(msg, "Safety") \/ includes(msg, "block")

\* shouldRetry with the attempt bound off by one
shouldRetry_offByOne(msg, attempt) ==
  (isQuota(msg) \/ isOverloaded(msg)) /\ attempt <= MAX_RETRIES

\* shouldRetry retrying every failure, whatever its text
shouldRetry_anyFailure(msg, attempt) == attempt < MAX_RETRIES

\* the retry condition of the catch block
shouldRetry(msg, attempt) == (isQuota(msg) \/ isOverloaded(msg)) /\ attempt < MAX_RETRIES

\* backoffDelay without the attempt factor
backoffDelay_constant(attempt) == BackoffUnit

\* the delay before the next attempt
backoffDelay(attempt) == BackoffUnit * attempt

\* sanitizeError without its final else branch
sanitizeError_noElse(msg) ==
  IF isQuota(msg) THEN QuotaMessage
  ELSE IF isSafety(msg) THEN SafetyMessage
  ELSE NoError

\* the user-facing error of the attempt that ends the loop
sanitizeError(msg) ==
  IF isQuota(msg) THEN QuotaMessage
  ELSE IF isSafety(msg) THEN SafetyMessage
  ELSE <<"Generation Failed: ">> \o substring(msg, ErrorDetailLen) \o <<"...">>

\* The classes of the failure taxonomy, in the order the catch block tests
\* the signals: quota, overload, safety, anything else.
Classify(msg) ==
  IF isQuota(msg) THEN "quota_exceeded"
  ELSE IF isOverloaded(msg) THEN "overloaded"
  ELSE IF isSafety(msg) THEN "safety_blocked"
  ELSE "fatal_other"

\* optimizedPrompt = response.text || "Prompt generation failed."
refinedText(text) == IF text = <<>> THEN <<"Prompt generation failed.">> ELSE text

slot(c) == IF c = "original" THEN result ELSE styledResult

\* a ResultCard renders its image block (filters, edit controls) only when
\* its result exists and has imageData
imageShown(c) == slot(c) # NoResult /\ slot(c).imageData # 0

\* setStatus(s), recorded in statusTrace
traceAfter(s) ==
  IF s = status THEN statusTrace
  ELSE IF status = "idle" THEN <<"idle", s>>
  ELSE Append(statusTrace, s)

\* the result slots and the history as handleMasterStyleClick and
\* handleApplyEdit find them when they are called
entryState == [result |-> result, styledResult |-> styledResult, history |-> history]

NoTask == [tid |-> 0, kind |-> "none", pc |-> "none", masterStylePrompt |-> <<>>,
           analysis |-> "pending", optimizedPrompt |-> <<>>, attempt |-> 0, delays |-> <<>>, outcomes |-> <<>>,
           calls |-> 0, source |-> NoResult, target |-> NoTarget, mask |-> NoMask,
           instruction |-> <<>>,
           before |-> [result |-> NoResult, styledResult |-> NoResult, history |-> <<>>]]

NoLast == [kind |-> "none", outcome |-> "none", result |-> NoResult,
           analysis |-> "pending", optimizedPrompt |-> <<>>,
           attempts |-> 0, delays |-> <<>>, outcomes |-> <<>>, calls |-> 0,
           target |-> NoTarget,
           before |-> [result |-> NoResult, styledResult |-> NoResult, history |-> <<>>]]

\* what is remembered of a completed invocation
completed(t, outcome, res) ==
  [kind |-> t.kind, outcome |-> outcome, result |-> res,
   analysis |-> t.analysis, optimizedPrompt |-> t.optimizedPrompt,
   attempts |-> t.attempt, delays |-> t.delays, outcomes |-> t.outcomes, calls |-> t.calls,
   target |-> t.target, before |-> t.before]

\* no call of optimizeUserPrompt made yet
NoOptimization == [pc |-> "idle", inputPrompt |-> <<>>, settled |-> "none", value |-> <<>>,
                   remote |-> "none", response |-> [defined |-> FALSE, text |-> <<>>]]

\* getBestAspectRatio not called yet; no pointer position mapped yet
NoAspect == [width |-> undefined, height |-> undefined, id |-> "none"]
NoPointer == [canvas |-> [width |-> 0, height |-> 0]]

\* the canvas before it has handled any event
NoCanvasEvent == [op |-> "none", effective |-> FALSE, from |-> <<>>, behind |-> 0]

Init ==
  /\ optimization = NoOptimization
  /\ aspect = NoAspect
  /\ pointer = NoPointer
  /\ baseImage = NoImage
  /\ loading = {}
  /\ raster = <<>>
  /\ historyRef = <<>>
  /\ historyStep = 0
  /\ isDrawing = FALSE
  /\ onMaskReady = <<>>
  /\ nLoads = 0
  /\ nCommits = 0
  /\ nMoves = 0
  /\ strokeStart = <<>>
  /\ canvasLast = NoCanvasEvent
  /\ sketch = <<>>
  /\ result = NoResult
  /\ styledResult = NoResult
  /\ history = <<>>
  /\ status = "idle"
  /\ error = NoError
  /\ editingTarget = NoTarget
  /\ localEditMask = [c \in Cards |-> NoMask]
  /\ localEditPrompt = [c \in Cards |-> <<>>]
  /\ apiKey \in BOOLEAN
  /\ now = 0
  /\ nInv = 0
  /\ tasks = {}
  /\ last = NoLast
  /\ statusTrace = <<"idle">>


\* --------------------------------------------------- App.tsx handlers
\* unmounting a ResultCard (its slot became null) discards its local state
cardsUnmounted ==
  /\ localEditMask' = [c \in Cards |-> NoMask]
  /\ localEditPrompt' = [c \in Cards |-> <<>>]

\* handleGenerate without its sketch check
handleGenerate_noValidation(masterStylePrompt) ==
  /\ status' = "analyzing"
  /\ statusTrace' = traceAfter("analyzing")
  /\ error' = NoError
  /\ result' = NoResult
  /\ styledResult' = NoResult
  /\ editingTarget' = NoTarget
  /\ cardsUnmounted
  /\ nInv' = nInv + 1
  /\ tasks' = tasks \cup
       {[NoTask EXCEPT !.tid = nInv + 1, !.kind = "generate",
                       !.pc = IF apiKey THEN "text" ELSE "nokey",
                       !.masterStylePrompt = masterStylePrompt]}
  /\ last' = NoLast
  /\ UNCHANGED <<sketch, history, apiKey, optimization, canvasVars, calcVars, now>>

\* handleGenerate without setStyledResult(null)
handleGenerate_keepsStyled(masterStylePrompt) ==
  IF Len(sketch) = 0
  THEN /\ error' = errorSketch
       /\ UNCHANGED <<sketch, result, styledResult, history, status, editingTarget,
                      localEditMask, localEditPrompt, apiKey, optimization, canvasVars, calcVars, now, nInv, tasks, last,
                      statusTrace>>
  ELSE /\ status' = "analyzing"
       /\ statusTrace' = traceAfter("analyzing")
       /\ error' = NoError
       /\ result' = NoResult
       /\ editingTarget' = NoTarget
       /\ localEditMask' = [localEditMask EXCEPT !["original"] = NoMask]
       /\ localEditPrompt' = [localEditPrompt EXCEPT !["original"] = <<>>]
       /\ nInv' = nInv + 1
       /\ tasks' = tasks \cup
            {[NoTask EXCEPT !.tid = nInv + 1, !.kind = "generate",
                            !.pc = IF apiKey THEN "text" ELSE "nokey",
                            !.masterStylePrompt = masterStylePrompt]}
       /\ last' = NoLast
       /\ UNCHANGED <<sketch, styledResult, history, apiKey, optimization, canvasVars, calcVars, now>>

\* handleGenerate up to its await.  generateArchitecturalPrompt runs getAIClient
\* before anything else, so without a key the promise is already rejected.
handleGenerate(masterStylePrompt) ==
  IF Len(sketch) = 0
  THEN /\ error' = errorSketch
       /\ UNCHANGED <<sketch, result, styledResult, history, status, editingTarget,
                      localEditMask, localEditPrompt, apiKey, optimization, canvasVars, calcVars, now, nInv, tasks, last,
                      statusTrace>>
  ELSE /\ status' = "analyzing"
       /\ statusTrace' = traceAfter("analyzing")
       /\ error' = NoError
       /\ result' = NoResult
       /\ styledResult' = NoResult
       /\ editingTarget' = NoTarget
       /\ cardsUnmounted
       /\ nInv' = nInv + 1
       /\ tasks' = tasks \cup
            {[NoTask EXCEPT !.tid = nInv + 1, !.kind = "generate",
                            !.pc = IF apiKey THEN "text" ELSE "nokey",
                            !.masterStylePrompt = masterStylePrompt]}
       /\ last' = NoLast
       /\ UNCHANGED <<sketch, history, apiKey, optimization, canvasVars, calcVars, now>>

\* handleMasterStyleClick without its test of sourceResult.imageData
handleMasterStyleClick_noImageCheck(source, stylePrompt) ==
  LET sourceResult == slot(source) IN
  /\ status' = "generating"
  /\ statusTrace' = traceAfter("generating")
  /\ error' = NoError
  /\ editingTarget' = NoTarget
  /\ nInv' = nInv + 1
  /\ tasks' = tasks \cup
       {[NoTask EXCEPT !.tid = nInv + 1, !.kind = "style",
                       !.pc = IF apiKey THEN "remote" ELSE "nokey",
                       !.calls = IF apiKey THEN 1 ELSE 0,
                       !.source = sourceResult, !.instruction = stylePrompt,
                       !.before = entryState]}
  /\ last' = NoLast
  /\ UNCHANGED <<sketch, result, styledResult, history, localEditMask,
                 localEditPrompt, apiKey, optimization, canvasVars, calcVars, now>>

\* handleMasterStyleClick up to its await.  applyMasterStyle issues its remote
\* call at once when a key is configured.
handleMasterStyleClick(source, stylePrompt) ==
  LET sourceResult == slot(source) IN
  IF sourceResult.imageData = 0
  THEN handleGenerate(stylePrompt)
  ELSE /\ status' = "generating"
       /\ statusTrace' = traceAfter("generating")
       /\ error' = NoError
       /\ editingTarget' = NoTarget
       /\ nInv' = nInv + 1
       /\ tasks' = tasks \cup
            {[NoTask EXCEPT !.tid = nInv + 1, !.kind = "style",
                            !.pc = IF apiKey THEN "remote" ELSE "nokey",
                            !.calls = IF apiKey THEN 1 ELSE 0,
                            !.source = sourceResult, !.instruction = stylePrompt,
                            !.before = entryState]}
       /\ last' = NoLast
       /\ UNCHANGED <<sketch, result, styledResult, history, localEditMask,
                      localEditPrompt, apiKey, optimization, canvasVars, calcVars, now>>

\* handleApplyEdit with an editArchitecturalImage that sends its request
\* without having looked for the key
handleApplyEdit_noKeyCheck(mask, prompt) ==
  LET targetResult == IF editingTarget = "original" THEN result ELSE styledResult IN
  IF targetResult.imageData = 0
  THEN UNCHANGED <<sketch, result, styledResult, history, status, error, editingTarget,
                   apiKey, optimization, canvasVars, calcVars, now, nInv, tasks, last, statusTrace>>
  ELSE /\ status' = "editing"
       /\ statusTrace' = traceAfter("editing")
       /\ nInv' = nInv + 1
       /\ tasks' = tasks \cup
            {[NoTask EXCEPT !.tid = nInv + 1, !.kind = "edit",
                            !.pc = "remote", !.calls = 1,
                            !.source = targetResult, !.target = editingTarget,
                            !.mask = mask, !.instruction = prompt,
                            !.before = entryState]}
       /\ last' = NoLast
       /\ UNCHANGED <<sketch, result, styledResult, history, error, editingTarget,
                      apiKey, optimization, canvasVars, calcVars, now>>

\* handleApplyEdit up to its await (the App state it writes; the card state is
\* written by its caller, ResultCard.handleApply).
handleApplyEdit(mask, prompt) ==
  LET targetResult == IF editingTarget = "original" THEN result ELSE styledResult IN
  IF targetResult.imageData = 0
  THEN UNCHANGED <<sketch, result, styledResult, history, status, error, editingTarget,
                   apiKey, optimization, canvasVars, calcVars, now, nInv, tasks, last, statusTrace>>
  ELSE /\ status' = "editing"
       /\ statusTrace' = traceAfter("editing")
       /\ nInv' = nInv + 1
       /\ tasks' = tasks \cup
            {[NoTask EXCEPT !.tid = nInv + 1, !.kind = "edit",
                            !.pc = IF apiKey THEN "remote" ELSE "nokey",
                            !.calls = IF apiKey THEN 1 ELSE 0,
                            !.source = targetResult, !.target = editingTarget,
                            !.mask = mask, !.instruction = prompt,
                            !.before = entryState]}
       /\ last' = NoLast
       /\ UNCHANGED <<sketch, result, styledResult, history, error, editingTarget,
                      apiKey, optimization, canvasVars, calcVars, now>>

\* ResultCard.handleApply
handleApply(c) ==
  IF localEditMask[c] # NoMask /\ localEditPrompt[c] # <<>>
  THEN /\ handleApplyEdit(localEditMask[c], localEditPrompt[c])
       /\ localEditMask' = [localEditMask EXCEPT ![c] = NoMask]
       /\ localEditPrompt' = [localEditPrompt EXCEPT ![c] = <<>>]
  ELSE UNCHANGED vars

\* ------------------------------------------------- controls of the UI
\* generate button: disabled={status !== 'idle' || sketch.length === 0}
generateEnabled == status = "idle" /\ Len(sketch) # 0

\* filter buttons of a card: shown when not editing, disabled={status !== 'idle'}
filterEnabled(c) == imageShown(c) /\ editingTarget # c /\ status = "idle"

\* the edit-start button without its disabled attribute
editStartEnabled_notDisabled(c) == imageShown(c) /\ editingTarget # c

\* edit-start button of a card: shown when not editing, disabled={isProcessing}
editStartEnabled(c) == imageShown(c) /\ editingTarget # c /\ status = "idle"

\* apply button: disabled={!localEditMask || !localEditPrompt || status === 'editing'}
applyEnabled(c) ==
  /\ imageShown(c) /\ editingTarget = c
  /\ localEditMask[c] # NoMask /\ localEditPrompt[c] # <<>>
  /\ status # "editing"

\* cancel button and canvas of a card in edit mode
editorShown(c) == imageShown(c) /\ editingTarget = c

UploadSketch ==
  /\ \E f \in SketchFiles : sketch' = <<f>>
  /\ UNCHANGED <<result, styledResult, history, status, error, editingTarget,
                 localEditMask, localEditPrompt, apiKey, optimization, canvasVars, calcVars, now, nInv, tasks, last, statusTrace>>

RemoveSketch ==
  /\ Len(sketch) > 0
  /\ sketch' = <<>>
  /\ UNCHANGED <<result, styledResult, history, status, error, editingTarget,
                 localEditMask, localEditPrompt, apiKey, optimization, canvasVars, calcVars, now, nInv, tasks, last, statusTrace>>

ClickGenerate ==
  /\ generateEnabled
  /\ nInv < MaxInvocations
  /\ handleGenerate(<<>>)

\* handleGenerate entered with no sketch: the button is disabled then, so this
\* is a call of the handler itself, made while no pipeline runs.
GenerateWithoutSketch ==
  /\ Len(sketch) = 0
  /\ status = "idle"
  /\ handleGenerate(<<>>)

ClickFilter(c) ==
  /\ filterEnabled(c)
  /\ nInv < MaxInvocations
  /\ \E style \in Styles : handleMasterStyleClick(c, style)

ClickEditStart(c) ==
  /\ editStartEnabled(c)
  /\ editingTarget' = c
  /\ UNCHANGED <<sketch, result, styledResult, history, status, error,
                 localEditMask, localEditPrompt, apiKey, optimization, canvasVars, calcVars, now, nInv, tasks, last, statusTrace>>

\* InpaintingCanvas calls onMaskReady = setLocalEditMask
MaskReady(c) ==
  /\ editorShown(c)
  /\ \E m \in Masks : localEditMask' = [localEditMask EXCEPT ![c] = m]
  /\ UNCHANGED <<sketch, result, styledResult, history, status, error, editingTarget,
                 localEditPrompt, apiKey, optimization, canvasVars, calcVars, now, nInv, tasks, last, statusTrace>>

TypeEditPrompt(c) ==
  /\ editorShown(c)
  /\ \E p \in EditPrompts \cup {<<>>} : localEditPrompt' = [localEditPrompt EXCEPT ![c] = p]
  /\ UNCHANGED <<sketch, result, styledResult, history, status, error, editingTarget,
                 localEditMask, apiKey, optimization, canvasVars, calcVars, now, nInv, tasks, last, statusTrace>>

ClickApply(c) ==
  /\ applyEnabled(c)
  /\ nInv < MaxInvocations
  /\ handleApply(c)

ClickCancel(c) ==
  /\ editorShown(c)
  /\ localEditMask' = [localEditMask EXCEPT ![c] = NoMask]
  /\ localEditPrompt' = [localEditPrompt EXCEPT ![c] = <<>>]
  /\ editingTarget' = NoTarget
  /\ UNCHANGED <<sketch, result, styledResult, history, status, error,
                 apiKey, optimization, canvasVars, calcVars, now, nInv, tasks, last, statusTrace>>


\* ------------------------------------- continuations after the awaits
\* setHistory without the slice
addToHistory_noSlice(r) == <<r>> \o history

\* setHistory(prev => [r, ...prev].slice(0, 3))
addToHistory(r) == slice(<<r>> \o history, HistoryCap)

\* the catch block of the handlers without a finally block
rejected_noFinally(t0, t) ==
  /\ error' = errorGeneric
  /\ tasks' = tasks \ {t0}
  /\ last' = completed(t, "threw", NoResult)
  /\ UNCHANGED <<sketch, result, styledResult, history, status, editingTarget,
                 localEditMask, localEditPrompt, apiKey, optimization, canvasVars, calcVars, now, nInv, statusTrace>>

\* the catch and finally blocks of the three handlers, entered when the awaited
\* service call rejects; t0 is the task as it was, t as it ends
rejected(t0, t) ==
  /\ error' = errorGeneric
  /\ status' = "idle"
  /\ statusTrace' = traceAfter("idle")
  /\ tasks' = tasks \ {t0}
  /\ last' = completed(t, "threw", NoResult)
  /\ UNCHANGED <<sketch, result, styledResult, history, editingTarget,
                 localEditMask, localEditPrompt, apiKey, optimization, canvasVars, calcVars, now, nInv>>

\* handleGenerate recording a result in the history only when it has an image
generateReturned_imageOnly(t0, t, imageData, imageGenerationError) ==
  LET generatedResult == [id |-> now + 1, prompt |-> t.optimizedPrompt,
                          imageData |-> imageData, error |-> imageGenerationError,
                          timestamp |-> now + 1] IN
  /\ now' = now + 1
  /\ result' = generatedResult
  /\ history' = IF imageData # 0 THEN addToHistory(generatedResult) ELSE history
  /\ status' = "idle"
  /\ statusTrace' = traceAfter("idle")
  /\ tasks' = tasks \ {t0}
  /\ last' = completed(t, "returned", generatedResult)
  /\ UNCHANGED <<sketch, styledResult, error, editingTarget,
                 localEditMask, localEditPrompt, apiKey, optimization, canvasVars, calcVars, nInv>>

\* generateArchitecturalPrompt returns and handleGenerate resumes: setResult,
\* setHistory, then the finally block
generateReturned(t0, t, imageData, imageGenerationError) ==
  LET generatedResult == [id |-> now + 1, prompt |-> t.optimizedPrompt,
                          imageData |-> imageData, error |-> imageGenerationError,
                          timestamp |-> now + 1] IN
  /\ now' = now + 1
  /\ result' = generatedResult
  /\ history' = addToHistory(generatedResult)
  /\ status' = "idle"
  /\ statusTrace' = traceAfter("idle")
  /\ tasks' = tasks \ {t0}
  /\ last' = completed(t, "returned", generatedResult)
  /\ UNCHANGED <<sketch, styledResult, error, editingTarget,
                 localEditMask, localEditPrompt, apiKey, optimization, canvasVars, calcVars, nInv>>

\* getAIClient threw: the service call is rejected before any remote call
KeyMissing(t) ==
  /\ t.pc = "nokey"
  /\ rejected(t, t)

\* Step 1 swallowing its failure and going on with the placeholder text
TextAnalysisFails_swallowed(t) ==
  /\ t.kind = "generate" /\ t.pc = "text"
  /\ tasks' = (tasks \ {t}) \cup
              {[t EXCEPT !.pc = "prep", !.analysis = "failed",
                         !.optimizedPrompt = refinedText(<<>>), !.calls = 1]}
  /\ UNCHANGED <<sketch, result, styledResult, history, status, error, editingTarget,
                 localEditMask, localEditPrompt, apiKey, optimization, canvasVars, calcVars, now, nInv, last, statusTrace>>

\* Step 1 fails: an input image cannot be processed (no remote call is made)
\* or the analysis call fails; "Analysis failed: ..." is thrown
TextAnalysisFails(t) ==
  /\ t.kind = "generate" /\ t.pc = "text"
  /\ \E called \in {0, 1} :
       rejected(t, [t EXCEPT !.analysis = "failed", !.calls = called])

\* Step 1 succeeds with response.text = text
TextAnalysisSucceeds(t) ==
  /\ t.kind = "generate" /\ t.pc = "text"
  /\ \E text \in Texts :
       tasks' = (tasks \ {t}) \cup
                {[t EXCEPT !.pc = "prep", !.analysis = "ok",
                          !.optimizedPrompt = refinedText(text), !.calls = 1]}
  /\ UNCHANGED <<sketch, result, styledResult, history, status, error, editingTarget,
                 localEditMask, localEditPrompt, apiKey, optimization, canvasVars, calcVars, now, nInv, last, statusTrace>>

\* Step 2 without the outer try/catch: the preparation failure is thrown
ImagePreparationFails_thrown(t) ==
  /\ t.kind = "generate" /\ t.pc = "prep"
  /\ rejected(t, t)

\* Step 2, fileToPart(sketch.file) fails: the outer catch sets the error and the
\* function returns without having called onStatusUpdate('generating')
ImagePreparationFails(t) ==
  /\ t.kind = "generate" /\ t.pc = "prep"
  /\ generateReturned(t, t, 0,
       <<"Failed to prepare image data: ", "Failed to process image.">>)

\* Step 2 without the onStatusUpdate('generating') call
ImagePreparationSucceeds_noStatusUpdate(t) ==
  /\ t.kind = "generate" /\ t.pc = "prep"
  /\ tasks' = (tasks \ {t}) \cup
              {[t EXCEPT !.pc = "img", !.attempt = 1, !.calls = t.calls + 1]}
  /\ UNCHANGED <<sketch, result, styledResult, history, status, error, editingTarget,
                 localEditMask, localEditPrompt, apiKey, optimization, canvasVars, calcVars, now, nInv, last, statusTrace>>

\* Step 2, preparation succeeds: onStatusUpdate('generating'), attempt 1 is issued
ImagePreparationSucceeds(t) ==
  /\ t.kind = "generate" /\ t.pc = "prep"
  /\ status' = "generating"
  /\ statusTrace' = traceAfter("generating")
  /\ tasks' = (tasks \ {t}) \cup
              {[t EXCEPT !.pc = "img", !.attempt = 1, !.calls = t.calls + 1]}
  /\ UNCHANGED <<sketch, result, styledResult, history, error, editingTarget,
                 localEditMask, localEditPrompt, apiKey, optimization, canvasVars, calcVars, now, nInv, last>>

\* the loop setting imageGenerationError on every failed attempt, retried or
\* not, so that a later success returns the image with that error
ImageAttemptSucceeds_staleError(t) ==
  /\ t.kind = "generate" /\ t.pc = "img"
  /\ generateReturned(t, [t EXCEPT !.outcomes = Append(t.outcomes, "ok")], now + 1,
       IF t.attempt > 1 THEN QuotaMessage ELSE NoError)

\* the attempt in flight returns image data: break
ImageAttemptSucceeds(t) ==
  /\ t.kind = "generate" /\ t.pc = "img"
  /\ generateReturned(t, [t EXCEPT !.outcomes = Append(t.outcomes, "ok")], now + 1, NoError)

\* the catch block issuing the next attempt at once, without awaiting wait(delay)
attemptFailed_noWait(t, msg) ==
  LET t1 == [t EXCEPT !.outcomes = Append(t.outcomes, Classify(msg))] IN
  IF shouldRetry(msg, t.attempt)
  THEN /\ tasks' = (tasks \ {t}) \cup
                   {[t1 EXCEPT !.pc = "img", !.attempt = t.attempt + 1,
                               !.calls = t.calls + 1,
                               !.delays = Append(t.delays, backoffDelay(t.attempt))]}
       /\ UNCHANGED <<sketch, result, styledResult, history, status, error, editingTarget,
                      localEditMask, localEditPrompt, apiKey, optimization, canvasVars, calcVars, now, nInv, last, statusTrace>>
  ELSE generateReturned(t, t1, 0, sanitizeError(msg))

\* the catch block of the retry loop for a failure with text msg
attemptFailed(t, msg) ==
  LET t1 == [t EXCEPT !.outcomes = Append(t.outcomes, Classify(msg))] IN
  IF shouldRetry(msg, t.attempt)
  THEN /\ tasks' = (tasks \ {t}) \cup
                   {[t1 EXCEPT !.pc = "wait",
                               !.delays = Append(t.delays, backoffDelay(t.attempt))]}
       /\ UNCHANGED <<sketch, result, styledResult, history, status, error, editingTarget,
                      localEditMask, localEditPrompt, apiKey, optimization, canvasVars, calcVars, now, nInv, last, statusTrace>>
  ELSE generateReturned(t, t1, 0, sanitizeError(msg))

\* the attempt in flight throws, or its response carries no image data
ImageAttemptFails(t) ==
  /\ t.kind = "generate" /\ t.pc = "img"
  /\ \E msg \in FailureMessages : attemptFailed(t, msg)

\* wait(delay) resolves: continue, the next attempt is issued
RetryDelayElapsed(t) ==
  /\ t.kind = "generate" /\ t.pc = "wait"
  /\ tasks' = (tasks \ {t}) \cup
              {[t EXCEPT !.pc = "img", !.attempt = t.attempt + 1, !.calls = t.calls + 1]}
  /\ UNCHANGED <<sketch, result, styledResult, history, status, error, editingTarget,
                 localEditMask, localEditPrompt, apiKey, optimization, canvasVars, calcVars, now, nInv, last, statusTrace>>

\* applyMasterStyle resolves and handleMasterStyleClick resumes
StyleSucceeds(t) ==
  /\ t.kind = "style" /\ t.pc = "remote"
  /\ LET newResult == [id |-> now + 1,
                       prompt |-> <<"[MASTER FILTER APPLIED] ">> \o t.source.prompt,
                       imageData |-> now + 1, error |-> NoError, timestamp |-> now + 1] IN
     /\ now' = now + 1
     /\ styledResult' = newResult
     /\ history' = addToHistory(newResult)
     /\ status' = "idle"
     /\ statusTrace' = traceAfter("idle")
     /\ tasks' = tasks \ {t}
     /\ last' = completed(t, "returned", newResult)
  /\ UNCHANGED <<sketch, result, error, editingTarget,
                 localEditMask, localEditPrompt, apiKey, optimization, canvasVars, calcVars, nInv>>

\* applyMasterStyle rejects ("Filter failed: ...")
StyleFails(t) ==
  /\ t.kind = "style" /\ t.pc = "remote"
  /\ rejected(t, t)

\* handleApplyEdit writing the new image, id and timestamp into targetResult
\* itself, so that every holder of that object sees them
EditSucceeds_inPlace(t) ==
  /\ t.kind = "edit" /\ t.pc = "remote"
  /\ LET updatedResult == [t.source EXCEPT !.imageData = now + 1, !.id = now + 1,
                                           !.timestamp = now + 1]
         mutated == [i \in 1..Len(history) |->
                       IF history[i] = t.source THEN updatedResult ELSE history[i]] IN
     /\ now' = now + 1
     /\ IF t.target = "original"
        THEN result' = updatedResult /\ UNCHANGED styledResult
        ELSE styledResult' = updatedResult /\ UNCHANGED result
     /\ history' = slice(<<updatedResult>> \o mutated, HistoryCap)
     /\ editingTarget' = NoTarget
     /\ status' = "idle"
     /\ statusTrace' = traceAfter("idle")
     /\ tasks' = tasks \ {t}
     /\ last' = completed(t, "returned", updatedResult)
  /\ UNCHANGED <<sketch, error, localEditMask, localEditPrompt, apiKey, optimization, canvasVars, calcVars, nInv>>

\* handleApplyEdit choosing the slot by the editingTarget of the moment the
\* request resolves instead of the one it was called with
EditSucceeds_currentTarget(t) ==
  /\ t.kind = "edit" /\ t.pc = "remote"
  /\ LET updatedResult == [t.source EXCEPT !.imageData = now + 1, !.id = now + 1,
                                           !.timestamp = now + 1] IN
     /\ now' = now + 1
     /\ IF editingTarget = "original"
        THEN result' = updatedResult /\ UNCHANGED styledResult
        ELSE styledResult' = updatedResult /\ UNCHANGED result
     /\ history' = addToHistory(updatedResult)
     /\ editingTarget' = NoTarget
     /\ status' = "idle"
     /\ statusTrace' = traceAfter("idle")
     /\ tasks' = tasks \ {t}
     /\ last' = completed(t, "returned", updatedResult)
  /\ UNCHANGED <<sketch, error, localEditMask, localEditPrompt, apiKey, optimization, canvasVars, calcVars, nInv>>

\* editArchitecturalImage resolves and handleApplyEdit resumes, with the
\* targetResult and editingTarget it read when it was called
EditSucceeds(t) ==
  /\ t.kind = "edit" /\ t.pc = "remote"
  /\ LET updatedResult == [t.source EXCEPT !.imageData = now + 1, !.id = now + 1,
                                           !.timestamp = now + 1] IN
     /\ now' = now + 1
     /\ IF t.target = "original"
        THEN result' = updatedResult /\ UNCHANGED styledResult
        ELSE styledResult' = updatedResult /\ UNCHANGED result
     /\ history' = addToHistory(updatedResult)
     /\ editingTarget' = NoTarget
     /\ status' = "idle"
     /\ statusTrace' = traceAfter("idle")
     /\ tasks' = tasks \ {t}
     /\ last' = completed(t, "returned", updatedResult)
  /\ UNCHANGED <<sketch, error, localEditMask, localEditPrompt, apiKey, optimization, canvasVars, calcVars, nInv>>

\* handleApplyEdit emptying the slot under edit when the edit fails
EditFails_clearsSlot(t) ==
  /\ t.kind = "edit" /\ t.pc = "remote"
  /\ error' = errorGeneric
  /\ IF t.target = "original"
     THEN result' = NoResult /\ UNCHANGED styledResult
     ELSE styledResult' = NoResult /\ UNCHANGED result
  /\ status' = "idle"
  /\ statusTrace' = traceAfter("idle")
  /\ tasks' = tasks \ {t}
  /\ last' = completed(t, "threw", NoResult)
  /\ UNCHANGED <<sketch, history, editingTarget,
                 localEditMask, localEditPrompt, apiKey, optimization, canvasVars, calcVars, now, nInv>>

\* editArchitecturalImage rejects ("Edit failed: ...")
EditFails(t) ==
  /\ t.kind = "edit" /\ t.pc = "remote"
  /\ rejected(t, t)

\* --------------------------------------------------- optimizeUserPrompt
\* optimizeUserPrompt creating its client before the try block
optimizeUserPrompt_clientOutsideTry(inputPrompt) ==
  /\ optimization.pc # "remote"
  /\ optimization' =
       IF trim(inputPrompt) = <<>>
       THEN [NoOptimization EXCEPT !.pc = "done", !.inputPrompt = inputPrompt,
                                   !.settled = "resolved", !.value = <<>>]
       ELSE IF ~apiKey
       THEN [NoOptimization EXCEPT !.pc = "done", !.inputPrompt = inputPrompt,
                                   !.settled = "rejected", !.remote = "nokey"]
       ELSE [NoOptimization EXCEPT !.pc = "remote", !.inputPrompt = inputPrompt]
  /\ UNCHANGED <<appVars, canvasVars, calcVars>>

\* optimizeUserPrompt up to its await: "" for a blank input; getAIClient is
\* called inside the try block, so a missing key ends in the catch block
optimizeUserPrompt(inputPrompt) ==
  /\ optimization.pc # "remote"
  /\ optimization' =
       IF trim(inputPrompt) = <<>>
       THEN [NoOptimization EXCEPT !.pc = "done", !.inputPrompt = inputPrompt,
                                   !.settled = "resolved", !.value = <<>>]
       ELSE IF ~apiKey
       THEN [NoOptimization EXCEPT !.pc = "done", !.inputPrompt = inputPrompt,
                                   !.settled = "resolved", !.value = inputPrompt,
                                   !.remote = "nokey"]
       ELSE [NoOptimization EXCEPT !.pc = "remote", !.inputPrompt = inputPrompt]
  /\ UNCHANGED <<appVars, canvasVars, calcVars>>

\* a call of optimizeUserPrompt with some input
OptimizeCalled == \E inputPrompt \in Prompts : optimizeUserPrompt(inputPrompt)

\* the remote call rejects: the catch block returns inputPrompt
OptimizeRemoteFails ==
  /\ optimization.pc = "remote"
  /\ optimization' = [optimization EXCEPT !.pc = "done", !.settled = "resolved",
                                          !.value = optimization.inputPrompt,
                                          !.remote = "failed"]
  /\ UNCHANGED <<appVars, canvasVars, calcVars>>

\* response.text?.trim() || inputPrompt
optimizedOrInput(response, inputPrompt) ==
  IF response.defined /\ trim(response.text) # <<>> THEN trim(response.text) ELSE inputPrompt

\* the remote call resolves with some response
OptimizeRemoteResponds ==
  /\ optimization.pc = "remote"
  /\ \E response \in ResponseTexts :
       optimization' = [optimization EXCEPT !.pc = "done", !.settled = "resolved",
                          !.value = optimizedOrInput(response, optimization.inputPrompt),
                          !.remote = "responded", !.response = response]
  /\ UNCHANGED <<appVars, canvasVars, calcVars>>

OptimizeNext == OptimizeCalled \/ OptimizeRemoteFails \/ OptimizeRemoteResponds

OptimizeSpec == Init /\ [][OptimizeNext]_vars

\* ------------------------------------------------------ InpaintingCanvas
\* what canvasLast records of an event: op, whether it changed the canvas,
\* from: the raster a history operation started from (for a committed gesture
\* the raster when the gesture began), and behind: the snapshots that lay after
\* the current one when the event arrived
event(op, effective, from) ==
  [op |-> op, effective |-> effective, from |-> from,
   behind |-> Len(historyRef) - 1 - historyStep]

\* exportMask drawing on an offscreen canvas it keeps from the previous export
\* without filling it black again
exportMask_reusedOffscreen(bitmap) ==
  onMaskReady' =
    IF onMaskReady = <<>> THEN <<maskOf(bitmap)>>
    ELSE <<[i \in 1..Len(bitmap) |->
              IF i <= Len(onMaskReady[1])
              THEN unpremultiply(sourceOver(bitmap[i], onMaskReady[1][i]))
              ELSE maskOf(bitmap)[i]]>>

\* exportMask: the mask of the bitmap is passed to onMaskReady
exportMask(bitmap) == onMaskReady' = <<maskOf(bitmap)>>

\* the onMaskReady prop is the setLocalEditMask of the ResultCard that shows
\* the canvas: the card under edit, if there is one, holds the mask exported
\* in this step
setLocalEditMask ==
  localEditMask' = IF onMaskReady' # <<>> /\ editingTarget \in Cards
                   THEN [localEditMask EXCEPT ![editingTarget] = onMaskReady'[1]]
                   ELSE localEditMask

\* saveHistoryState appending to the whole list, whatever the step
saveHistoryState_noTruncation(bitmap) ==
  /\ historyRef' = Append(historyRef, getImageData(bitmap))
  /\ historyStep' = Len(historyRef')  - 1
  /\ exportMask(bitmap)

\* saveHistoryState, the canvas showing bitmap
saveHistoryState(bitmap) ==
  /\ historyRef' = Append(slice(historyRef, historyStep + 1), getImageData(bitmap))
  /\ historyStep' = Len(historyRef') - 1
  /\ exportMask(bitmap)

\* the component is mounted with a source image: initial state, and the effect
\* starts loading the image
Mount ==
  /\ baseImage = NoImage
  /\ \E img \in Images :
       /\ baseImage' = img
       /\ loading' = {img}
  /\ raster' = blank(DefaultPixels)
  /\ historyRef' = <<>>
  /\ historyStep' = 0
  /\ isDrawing' = FALSE
  /\ onMaskReady' = <<>>
  /\ nLoads' = 1
  /\ nCommits' = 0
  /\ nMoves' = 0
  /\ strokeStart' = blank(DefaultPixels)
  /\ canvasLast' = event("mount", TRUE, <<>>)
  /\ UNCHANGED <<appVars, optimization, calcVars>>

\* the baseImage prop changes: the effect runs again
BaseImageChanged ==
  /\ baseImage # NoImage
  /\ nLoads < MaxLoads
  /\ \E img \in Images \ {baseImage} :
       /\ baseImage' = img
       /\ loading' = loading \cup {img}
  /\ nLoads' = nLoads + 1
  /\ onMaskReady' = <<>>
  /\ canvasLast' = event("image", FALSE, <<>>)
  /\ UNCHANGED <<appVars, optimization, calcVars, raster, historyRef, historyStep, isDrawing,
                 nCommits, nMoves, strokeStart>>

\* img.onload sizing the canvas without starting the history again
ImageLoaded_keepsHistory ==
  /\ \E img \in loading :
       /\ loading' = loading \ {img}
       /\ raster' = blank(img)
       /\ strokeStart' = blank(img)
  /\ onMaskReady' = <<>>
  /\ canvasLast' = event("load", TRUE, <<>>)
  /\ UNCHANGED <<appVars, optimization, calcVars, baseImage, historyRef, historyStep, isDrawing,
                 nLoads, nCommits, nMoves>>

\* img.onload: the canvas takes the size of the image (which empties it), the
\* history is the one blank snapshot
ImageLoaded ==
  /\ \E img \in loading :
       /\ loading' = loading \ {img}
       /\ raster' = blank(img)
       /\ historyRef' = <<getImageData(blank(img))>>
       /\ strokeStart' = blank(img)
  /\ historyStep' = 0
  /\ onMaskReady' = <<>>
  /\ canvasLast' = event("load", TRUE, <<>>)
  /\ UNCHANGED <<appVars, optimization, calcVars, baseImage, isDrawing, nLoads, nCommits, nMoves>>

\* draw: paints only when the handler sees isDrawing set
draw(p) == raster' = IF isDrawing THEN stroke(raster, p) ELSE raster

\* handleMouseDown / handleTouchStart: startDrawing sets isDrawing and calls
\* draw, which still sees the isDrawing of the render that made the handler
PointerDown ==
  /\ baseImage # NoImage
  /\ isDrawing \/ nCommits < MaxCommits
  /\ isDrawing => nMoves < MaxMoves
  /\ nCommits' = IF isDrawing THEN nCommits ELSE nCommits + 1
  /\ isDrawing' = TRUE
  /\ \E p \in 1..Len(raster) : draw(p)
  /\ nMoves' = IF isDrawing THEN nMoves + 1 ELSE 0
  /\ strokeStart' = IF isDrawing THEN strokeStart ELSE raster
  /\ onMaskReady' = <<>>
  /\ canvasLast' = event("down", TRUE, <<>>)
  /\ UNCHANGED <<appVars, optimization, calcVars, baseImage, loading, historyRef, historyStep, nLoads>>

\* onMouseMove / onTouchMove = draw
PointerMove ==
  /\ baseImage # NoImage
  /\ nMoves < MaxMoves
  /\ \E p \in 1..Len(raster) : draw(p)
  /\ nMoves' = IF isDrawing THEN nMoves + 1 ELSE nMoves
  /\ onMaskReady' = <<>>
  /\ canvasLast' = event("move", isDrawing, <<>>)
  /\ UNCHANGED <<appVars, optimization, calcVars, baseImage, loading, historyRef, historyStep,
                 isDrawing, nLoads, nCommits, strokeStart>>

\* stopDrawing saving a snapshot whether or not a gesture is open
stopDrawing_unguarded ==
  /\ baseImage # NoImage
  /\ isDrawing' = FALSE
  /\ saveHistoryState(raster)
  /\ nMoves' = 0
  /\ strokeStart' = raster
  /\ canvasLast' = event("stroke", TRUE, strokeStart)
  /\ setLocalEditMask
  /\ UNCHANGED <<appRest, optimization, calcVars, baseImage, loading, raster, nLoads, nCommits>>

\* onMouseUp / onMouseLeave / onTouchEnd = stopDrawing
stopDrawing ==
  /\ baseImage # NoImage
  /\ IF isDrawing
     THEN /\ isDrawing' = FALSE
          /\ saveHistoryState(raster)
          /\ nMoves' = 0
          /\ strokeStart' = raster
          /\ canvasLast' = event("stroke", TRUE, strokeStart)
     ELSE /\ onMaskReady' = <<>>
          /\ canvasLast' = event("stop", FALSE, <<>>)
          /\ UNCHANGED <<historyRef, historyStep, isDrawing, nMoves, strokeStart>>
  /\ setLocalEditMask
  /\ UNCHANGED <<appRest, optimization, calcVars, baseImage, loading, raster, nLoads, nCommits>>

\* handleUndo exporting the mask also when it changes nothing
handleUndo_alwaysExports ==
  /\ baseImage # NoImage
  /\ IF historyStep > 0
     THEN /\ raster' = putImageData(raster, historyRef[historyStep])
          /\ historyStep' = historyStep - 1
          /\ exportMask(raster')
          /\ canvasLast' = event("undo", TRUE, raster)
     ELSE /\ exportMask(raster)
          /\ canvasLast' = event("undo", FALSE, <<>>)
          /\ UNCHANGED <<raster, historyStep>>
  /\ strokeStart' = IF isDrawing THEN strokeStart ELSE raster'
  /\ setLocalEditMask
  /\ UNCHANGED <<appRest, optimization, calcVars, baseImage, loading, historyRef, isDrawing,
                 nLoads, nCommits, nMoves>>

\* handleUndo (historyRef.current[newStep] is element newStep + 1 of the sequence)
handleUndo ==
  /\ baseImage # NoImage
  /\ IF historyStep > 0
     THEN /\ raster' = putImageData(raster, historyRef[historyStep])
          /\ historyStep' = historyStep - 1
          /\ exportMask(raster')
          /\ canvasLast' = event("undo", TRUE, raster)
     ELSE /\ onMaskReady' = <<>>
          /\ canvasLast' = event("undo", FALSE, <<>>)
          /\ UNCHANGED <<raster, historyStep>>
  /\ strokeStart' = IF isDrawing THEN strokeStart ELSE raster'
  /\ setLocalEditMask
  /\ UNCHANGED <<appRest, optimization, calcVars, baseImage, loading, historyRef, isDrawing,
                 nLoads, nCommits, nMoves>>

\* handleRedo without its call of exportMask
handleRedo_noExport ==
  /\ baseImage # NoImage
  /\ IF historyStep < Len(historyRef) - 1
     THEN /\ raster' = putImageData(raster, historyRef[historyStep + 2])
          /\ historyStep' = historyStep + 1
          /\ canvasLast' = event("redo", TRUE, raster)
     ELSE /\ canvasLast' = event("redo", FALSE, <<>>)
          /\ UNCHANGED <<raster, historyStep>>
  /\ onMaskReady' = <<>>
  /\ strokeStart' = IF isDrawing THEN strokeStart ELSE raster'
  /\ setLocalEditMask
  /\ UNCHANGED <<appRest, optimization, calcVars, baseImage, loading, historyRef, isDrawing,
                 nLoads, nCommits, nMoves>>

\* handleRedo
handleRedo ==
  /\ baseImage # NoImage
  /\ IF historyStep < Len(historyRef) - 1
     THEN /\ raster' = putImageData(raster, historyRef[historyStep + 2])
          /\ historyStep' = historyStep + 1
          /\ exportMask(raster')
          /\ canvasLast' = event("redo", TRUE, raster)
     ELSE /\ onMaskReady' = <<>>
          /\ canvasLast' = event("redo", FALSE, <<>>)
          /\ UNCHANGED <<raster, historyStep>>
  /\ strokeStart' = IF isDrawing THEN strokeStart ELSE raster'
  /\ setLocalEditMask
  /\ UNCHANGED <<appRest, optimization, calcVars, baseImage, loading, historyRef, isDrawing,
                 nLoads, nCommits, nMoves>>

\* clearCanvas: clearRect, then saveHistoryState
clearCanvas ==
  /\ baseImage # NoImage
  /\ nCommits < MaxCommits
  /\ nCommits' = nCommits + 1
  /\ raster' = blank(Len(raster))
  /\ saveHistoryState(raster')
  /\ strokeStart' = IF isDrawing THEN strokeStart ELSE raster'
  /\ canvasLast' = event("clear", TRUE, raster)
  /\ setLocalEditMask
  /\ UNCHANGED <<appRest, optimization, calcVars, baseImage, loading, isDrawing, nLoads, nMoves>>

CanvasNext ==
  \/ Mount
  \/ BaseImageChanged
  \/ ImageLoaded
  \/ PointerDown
  \/ PointerMove
  \/ stopDrawing
  \/ handleUndo
  \/ handleRedo
  \/ clearCanvas

CanvasSpec == Init /\ [][CanvasNext]_vars

\* ---------------------------------------------------- getBestAspectRatio
\* a decimal literal n / d of the source: the double nearest to it
literal(n, d) == numDiv(num(n), num(d))

\* !width: the value is undefined or 0
falsy(n) == n = undefined \/ n = 0

targets ==
  << [id |-> "1:1", val |-> literal(10, 10)],
     [id |-> "3:4", val |-> literal(75, 100)],
     [id |-> "4:3", val |-> literal(1333, 1000)],
     [id |-> "9:16", val |-> literal(5625, 10000)],
     [id |-> "16:9", val |-> literal(1777, 1000)] >>

\* the callback of targets.reduce
closer(prev, curr, ratio) ==
  IF numLess(abs(numSub(curr.val, ratio)), abs(numSub(prev.val, ratio))) THEN curr ELSE prev

\* targets.reduce without an initial value, from element i on
RECURSIVE reduce(_, _, _)
reduce(prev, i, ratio) ==
  IF i > Len(targets) THEN prev
  ELSE reduce(closer(prev, targets[i], ratio), i + 1, ratio)

getBestAspectRatio(width, height) ==
  IF falsy(width) \/ falsy(height) THEN "1:1"
  ELSE reduce(targets[1], 2, numDiv(num(width), num(height))).id

\* generateArchitecturalPrompt asks for the aspect ratio of a sketch (one call a
\* behaviour: the function keeps nothing from one call to the next)
AspectRatioChosen ==
  /\ aspect = NoAspect
  /\ \E width \in Dimensions, height \in Dimensions :
       aspect' = [width |-> width, height |-> height,
                  id |-> getBestAspectRatio(width, height)]
  /\ UNCHANGED <<appVars, optimization, canvasVars, pointer>>

AspectNext == AspectRatioChosen

AspectSpec == Init /\ [][AspectNext]_vars

\* ---------------------------------------- draw: the coordinate mapping
\* draw using the horizontal scale for y as well
mapped_oneScale(rect, canvas, clientX, clientY, brushSize) ==
  [rect |-> rect, canvas |-> canvas, clientX |-> clientX, clientY |-> clientY,
   brushSize |-> brushSize,
   x |-> numMul(numSub(num(clientX), num(rect.left)),
                numDiv(num(canvas.width), num(rect.width))),
   y |-> numMul(numSub(num(clientY), num(rect.top)),
                numDiv(num(canvas.width), num(rect.width))),
   lineWidth |-> numMul(num(brushSize), numDiv(num(canvas.width), num(rect.width)))]

\* x, y and ctx.lineWidth as draw computes them for a pointer at
\* (clientX, clientY), the canvas shown in the box rect
mapped(rect, canvas, clientX, clientY, brushSize) ==
  [rect |-> rect, canvas |-> canvas, clientX |-> clientX, clientY |-> clientY,
   brushSize |-> brushSize,
   x |-> numMul(numSub(num(clientX), num(rect.left)),
                numDiv(num(canvas.width), num(rect.width))),
   y |-> numMul(numSub(num(clientY), num(rect.top)),
                numDiv(num(canvas.height), num(rect.height))),
   lineWidth |-> numMul(num(brushSize), numDiv(num(canvas.width), num(rect.width)))]

\* draw maps a pointer position inside the box of the canvas (one position a
\* behaviour: the mapping keeps nothing from one event to the next)
PointerMapped ==
  /\ pointer = NoPointer
  /\ \E left \in Origins, top \in Origins, width \in 1..MaxBox, height \in 1..MaxBox :
       \E canvas \in CanvasSizes, brushSize \in BrushSizes :
         \E clientX \in left..(left + width), clientY \in top..(top + height) :
           pointer' = mapped([left |-> left, top |-> top, width |-> width, height |-> height],
                             canvas, clientX, clientY, brushSize)
  /\ UNCHANGED <<appVars, optimization, canvasVars, aspect>>

MapperNext == PointerMapped

MapperSpec == Init /\ [][MapperNext]_vars

\* a suspended invocation resumes
Resume ==
  \/ \E t \in tasks : KeyMissing(t)
  \/ \E t \in tasks : TextAnalysisFails(t)
  \/ \E t \in tasks : TextAnalysisSucceeds(t)
  \/ \E t \in tasks : ImagePreparationFails(t)
  \/ \E t \in tasks : ImagePreparationSucceeds(t)
  \/ \E t \in tasks : ImageAttemptSucceeds(t)
  \/ \E t \in tasks : ImageAttemptFails(t)
  \/ \E t \in tasks : RetryDelayElapsed(t)
  \/ \E t \in tasks : StyleSucceeds(t)
  \/ \E t \in tasks : StyleFails(t)
  \/ \E t \in tasks : EditSucceeds(t)
  \/ \E t \in tasks : EditFails(t)

UserAction ==
  \/ UploadSketch
  \/ RemoveSketch
  \/ ClickGenerate
  \/ GenerateWithoutSketch
  \/ \E c \in Cards :
       \/ ClickFilter(c)
       \/ ClickEditStart(c)
       \/ MaskReady(c)
       \/ TypeEditPrompt(c)
       \/ ClickApply(c)
       \/ ClickCancel(c)

Next == UserAction \/ Resume

Spec == Init /\ [][Next]_vars

\* every remote call, image decode and retry delay eventually completes
FairSpec == Spec /\ WF_vars(Resume)


\* handleMasterStyleClick entered for a slot that has no image: the filter
\* buttons are not rendered then, so this is a call of the handler itself,
\* made while no pipeline runs.
FilterWithoutImage(c) ==
  /\ slot(c).imageData = 0
  /\ status = "idle"
  /\ nInv < MaxInvocations
  /\ \E style \in Styles : handleMasterStyleClick(c, style)

\* the orchestrator with its handlers also called directly
HandlerNext == Next \/ \E c \in Cards : FilterWithoutImage(c)

HandlerSpec == Init /\ [][HandlerNext]_vars


\* the environment stops providing a key: getAIClient looks the key up again
\* on every call, so the invocations started from then on find none
KeyRemoved ==
  /\ apiKey
  /\ apiKey' = FALSE
  /\ UNCHANGED <<sketch, result, styledResult, history, status, error, editingTarget,
                 localEditMask, localEditPrompt, optimization, canvasVars, calcVars, now, nInv,
                 tasks, last, statusTrace>>

\* optimizeUserPrompt called while no key is configured (one call a behaviour)
OptimizeWithoutKey ==
  /\ ~apiKey
  /\ optimization = NoOptimization
  /\ OptimizeCalled

\* The operations that need the key, with the key missing from the start or
\* removed at any moment: optimizeUserPrompt, and the orchestrator without the
\* retries of the image step (style and edit need a result with an image, so
\* a key must have been there before).
SetupNext ==
  \/ UploadSketch
  \/ ClickGenerate
  \/ \E c \in Cards :
       \/ ClickFilter(c)
       \/ ClickEditStart(c)
       \/ MaskReady(c)
       \/ TypeEditPrompt(c)
       \/ ClickApply(c)
       \/ ClickCancel(c)
  \/ \E t \in tasks : KeyMissing(t)
  \/ \E t \in tasks : TextAnalysisFails(t)
  \/ \E t \in tasks : TextAnalysisSucceeds(t)
  \/ \E t \in tasks : ImagePreparationSucceeds(t)
  \/ \E t \in tasks : ImageAttemptSucceeds(t)
  \/ \E t \in tasks : StyleSucceeds(t)
  \/ \E t \in tasks : StyleFails(t)
  \/ \E t \in tasks : EditSucceeds(t)
  \/ \E t \in tasks : EditFails(t)
  \/ KeyRemoved
  \/ OptimizeWithoutKey

SetupSpec == Init /\ [][SetupNext]_vars


\* ------------------------------------------ a ResultCard in edit mode
\* the card under edit renders its InpaintingCanvas
canvasShown == editingTarget \in Cards /\ editorShown(editingTarget)

\* the edit-start button: setEditingTarget(c), and the card renders a new
\* InpaintingCanvas (any canvas shown until then is unmounted) on the image of
\* its result, whose pixel dimensions are those of one of Images
EditOpened(c) ==
  /\ editStartEnabled(c)
  /\ editingTarget' = c
  /\ \E img \in Images :
       /\ baseImage' = img
       /\ loading' = {img}
  /\ raster' = blank(DefaultPixels)
  /\ historyRef' = <<>>
  /\ historyStep' = 0
  /\ isDrawing' = FALSE
  /\ onMaskReady' = <<>>
  /\ nLoads' = 1
  /\ nCommits' = 0
  /\ nMoves' = 0
  /\ strokeStart' = blank(DefaultPixels)
  /\ canvasLast' = event("mount", TRUE, <<>>)
  /\ UNCHANGED <<sketch, result, styledResult, history, status, error,
                 localEditMask, localEditPrompt, apiKey, optimization, calcVars, now, nInv,
                 tasks, last, statusTrace>>

\* One editing session after another on the result of a generate invocation:
\* the card's controls, the events of the canvas it shows, and the edit
\* requests.  The canvas variables are those of the canvas shown; they mean
\* nothing while no card is under edit.
SessionNext ==
  \/ UploadSketch
  \/ ClickGenerate
  \/ \E t \in tasks : TextAnalysisSucceeds(t)
  \/ \E t \in tasks : ImagePreparationSucceeds(t)
  \/ \E t \in tasks : ImageAttemptSucceeds(t)
  \/ \E c \in Cards : EditOpened(c)
  \/ \E c \in Cards : TypeEditPrompt(c)
  \/ \E c \in Cards : ClickApply(c)
  \/ \E c \in Cards : ClickCancel(c)
  \/ \E t \in tasks : EditSucceeds(t)
  \/ \E t \in tasks : EditFails(t)
  \/ canvasShown /\ ImageLoaded
  \/ canvasShown /\ PointerDown
  \/ canvasShown /\ PointerMove
  \/ canvasShown /\ stopDrawing
  \/ canvasShown /\ handleUndo
  \/ canvasShown /\ handleRedo
  \/ canvasShown /\ clearCanvas

SessionSpec == Init /\ [][SessionNext]_vars


\* ============================================================= claims
Retriable == {"quota_exceeded", "overloaded"}

\* the delays 2000 * 1, ..., 2000 * k
ExpectedDelays(k) == [n \in 1..k |-> 2000 * n]

generateTasks == {t \in tasks : t.kind = "generate"}

\* C1: within one generate invocation attempt n+1 is issued if and only if
\* attempt n failed with a message classified quota_exceeded or overloaded and
\* n < 3; so there are never more than 3 attempts, and the wait before attempt
\* n+1 is 2000 ms * n.
C1_RetryIffRetriable ==
  /\ \A t \in generateTasks :
       /\ t.attempt <= 3
       /\ t.pc = "img" =>
            /\ Len(t.outcomes) = t.attempt - 1
            /\ \A n \in 1..(t.attempt - 1) : t.outcomes[n] \in Retriable /\ n < 3
            /\ t.delays = ExpectedDelays(t.attempt - 1)
       /\ t.pc = "wait" =>
            /\ Len(t.outcomes) = t.attempt
            /\ \A n \in 1..t.attempt : t.outcomes[n] \in Retriable /\ n < 3
            /\ t.delays = ExpectedDelays(t.attempt)
  /\ (last.kind = "generate" /\ last.attempts >= 1) =>
       /\ last.attempts <= 3
       /\ Len(last.outcomes) = last.attempts
       /\ \A n \in 1..(last.attempts - 1) : last.outcomes[n] \in Retriable /\ n < 3
       /\ ~(last.outcomes[last.attempts] \in Retriable /\ last.attempts < 3)
       /\ last.delays = ExpectedDelays(last.attempts - 1)

C1_Witness ==
  /\ last.kind = "generate"
  /\ last.attempts = 3
  /\ last.delays = <<2000, 4000>>
  /\ last.outcomes[3] = "quota_exceeded"

\* C2: overloaded on attempts 1 and 2 and success on attempt 3 gives exactly the
\* delays 2000 ms then 4000 ms, and the returned PromptResult has its image and
\* no error.
C2_TwoDelaysThenImage ==
  (last.kind = "generate" /\ last.outcomes = <<"overloaded", "overloaded", "ok">>) =>
    /\ last.delays = <<2000, 4000>>
    /\ last.outcome = "returned"
    /\ last.result.imageData # 0
    /\ last.result.error = NoError
    /\ result = last.result

C2_Witness ==
  /\ last.kind = "generate"
  /\ last.outcomes = <<"overloaded", "overloaded", "ok">>
  /\ result.imageData # 0

\* C3: overloaded on all 3 attempts: generate returns a PromptResult with an
\* image-generation error, no image, and the refined text.
C3_ExhaustedGivesError ==
  (last.kind = "generate" /\ last.outcomes = <<"overloaded", "overloaded", "overloaded">>) =>
    /\ last.outcome = "returned"
    /\ last.result.error # NoError
    /\ last.result.imageData = 0
    /\ last.result.prompt = last.optimizedPrompt
    /\ last.analysis = "ok"
    /\ result = last.result

C3_Witness ==
  /\ last.kind = "generate"
  /\ last.outcomes = <<"overloaded", "overloaded", "overloaded">>
  /\ result.error # NoError


\* C4 as stated: whenever an attempt of an invocation fails with a message
\* classified safety_blocked, the invocation made exactly one attempt, waited
\* zero delays, and its result's error is the Safety Block message.
C4_AsStated ==
  (last.kind = "generate" /\ \E n \in 1..Len(last.outcomes) : last.outcomes[n] = "safety_blocked") =>
    /\ last.attempts = 1
    /\ last.delays = <<>>
    /\ last.result.error = SafetyMessage

\* C4 amended: an attempt that fails with a message classified safety_blocked
\* is never retried: it is the last attempt of its invocation, no delay follows
\* it, and the returned PromptResult carries the Safety Block message and no
\* image; it is the only attempt, with zero delays, when it is the first.
C4_SafetyNotRetried ==
  /\ \A t \in generateTasks :
       \A n \in 1..Len(t.outcomes) : t.outcomes[n] # "safety_blocked"
  /\ last.kind = "generate" =>
       \A n \in 1..Len(last.outcomes) :
         last.outcomes[n] = "safety_blocked" =>
           /\ n = last.attempts
           /\ Len(last.delays) = n - 1
           /\ last.outcome = "returned"
           /\ last.result.error = SafetyMessage
           /\ last.result.imageData = 0
           /\ result = last.result

C4_Witness ==
  /\ last.kind = "generate"
  /\ last.outcomes = <<"safety_blocked">>
  /\ last.delays = <<>>
  /\ result.error = SafetyMessage

\* C5: once text analysis has succeeded generate never throws: whatever the
\* image preparation and the attempts do, it returns a PromptResult whose prompt
\* is the refined text of the analysis step.
C5_NeverThrowsAfterAnalysis ==
  (last.kind = "generate" /\ last.analysis = "ok") =>
    /\ last.outcome = "returned"
    /\ last.result # NoResult
    /\ last.result.prompt = last.optimizedPrompt
    /\ last.optimizedPrompt \in {refinedText(text) : text \in Texts}
    /\ result = last.result

C5_Witness ==
  /\ last.kind = "generate"
  /\ last.analysis = "ok"
  /\ last.attempts = 0
  /\ last.outcome = "returned"
  /\ result.prompt = <<"desc">>

\* C6: no image-synthesis attempt is issued before the text-analysis call has
\* completed, and none at all when it fails: generate then rejects with an
\* error, with zero image attempts and no PromptResult.
C6_NoAttemptWithoutAnalysis ==
  /\ \A t \in generateTasks :
       /\ t.analysis # "ok" => (t.attempt = 0 /\ t.pc \in {"text", "nokey"})
       /\ t.pc \in {"img", "wait"} => t.analysis = "ok"
  /\ (last.kind = "generate" /\ last.analysis = "failed") =>
       /\ last.outcome = "threw"
       /\ last.attempts = 0
       /\ last.calls <= 1
       /\ last.result = NoResult
       /\ result = NoResult
       /\ error # NoError

C6_Witness ==
  /\ last.kind = "generate"
  /\ last.analysis = "failed"
  /\ last.calls = 1
  /\ error = errorGeneric

\* C7: handleGenerate entered with zero sketch images starts no invocation (so
\* no remote call), reports the validation error, and leaves status idle and
\* the result slots and the history as they were.
C7_NoSketchNoRemoteCall ==
  [][(Len(sketch) = 0 /\ GenerateWithoutSketch) =>
       /\ tasks' = tasks
       /\ nInv' = nInv
       /\ error' = errorSketch
       /\ status = "idle" /\ status' = "idle"
       /\ result' = result
       /\ styledResult' = styledResult
       /\ history' = history]_vars

C7_Witness ==
  /\ Len(sketch) = 0
  /\ error = errorSketch
  /\ status = "idle"
  /\ tasks = {}
  /\ Len(history) > 0

\* C8: status is idle whenever no invocation is in flight, and (every remote
\* call and retry delay completing) every invocation that leaves idle brings
\* status back to idle, whatever its outcome.
C8_StatusReturnsToIdle ==
  /\ [](tasks = {} => status = "idle")
  /\ (status # "idle") ~> (status = "idle")

C8_Witness ==
  /\ ~apiKey
  /\ last.kind = "generate"
  /\ last.outcome = "threw"
  /\ statusTrace = <<"idle", "analyzing", "idle">>
  /\ status = "idle"

StatusPrefixes(full) == {SubSeq(full, 1, k) : k \in 1..Len(full)}

C10_SingleFlight ==
  /\ Cardinality(tasks) <= 1
  /\ tasks # {} => status # "idle"

C10_Witness ==
  /\ \E t \in tasks : t.kind = "edit" /\ t.target = "styled"
  /\ status = "editing"
  /\ imageShown("original")
  /\ Len(sketch) > 0

\* ids of the entries of a history, in order
historyIds(h) == [i \in 1..Len(h) |-> h[i].id]

\* inserting r into h: r first, then the entries of h in their order, the
\* oldest one dropped when h already holds 3
insertedInto(h, r) ==
  <<r>> \o (IF Len(h) = 3 THEN SubSeq(h, 1, 2) ELSE h)

\* C11: the history holds at most 3 entries, most recent first (ids are the
\* creation times), and every change of it is the insertion of one new, most
\* recent result at the front: when it already holds 3, exactly the oldest is
\* evicted and the others keep their relative order.
C11_HistoryBoundedNewestFirst ==
  /\ [](/\ Len(history) <= 3
        /\ \A i, j \in 1..Len(history) : i < j => history[i].id > history[j].id)
  /\ [][history' # history =>
          /\ Len(history') >= 1
          /\ history' = insertedInto(history, history'[1])
          /\ \A i \in 1..Len(history) : history'[1].id > history[i].id]_vars

C11_Witness ==
  /\ Len(history) = 3
  /\ historyIds(history) = <<4, 3, 2>>
  /\ last.kind = "edit"
  /\ historyIds(last.before.history) = <<3, 2, 1>>

\* C12: every PromptResult produced by a generation (also one without image,
\* carrying an image-generation error), by a successful style application or by
\* a successful masked edit is the first entry of the history as soon as the
\* operation has completed.
C12_ResultHeadsHistory ==
  /\ (last.outcome = "returned") =>
       /\ last.result # NoResult
       /\ Len(history) >= 1
       /\ history[1] = last.result
  /\ (last.outcome = "returned" /\ last.kind = "generate") => result = last.result
  /\ (last.outcome = "returned" /\ last.kind = "style") =>
       (styledResult = last.result /\ last.result.imageData # 0)
  /\ (last.outcome = "returned" /\ last.kind = "edit") =>
       (slot(last.target) = last.result /\ last.result.imageData # 0)

C12_Witness ==
  /\ last.kind = "generate"
  /\ last.outcome = "returned"
  /\ last.result.imageData = 0
  /\ last.result.error # NoError
  /\ Len(history) >= 2
  /\ history[1] = last.result

\* C13: when a style application or a masked edit fails, an error is shown and
\* the original slot, the styled slot and the history are exactly as they were
\* when the operation started.
C13_FailureLeavesResults ==
  (last.kind \in {"style", "edit"} /\ last.outcome = "threw") =>
    /\ error # NoError
    /\ last.result = NoResult
    /\ result = last.before.result
    /\ styledResult = last.before.styledResult
    /\ history = last.before.history

C13_Witness ==
  /\ last.kind = "edit"
  /\ last.outcome = "threw"
  /\ last.target = "styled"
  /\ apiKey
  /\ styledResult # NoResult
  /\ error = errorGeneric
  /\ Len(history) >= 2

\* the PromptResult under edit, as handleApplyEdit found it
editedTarget == IF last.target = "original" THEN last.before.result ELSE last.before.styledResult

\* C14: a successful masked edit produces a new PromptResult with a fresh id and
\* timestamp, the prompt of its target and the edited image, and leaves the
\* target object as it was: the entries the history held before the edit, the
\* target among them, are still there with their image and id (the oldest one
\* evicted when there were 3).
C14_EditMakesNewResult ==
  (last.kind = "edit" /\ last.outcome = "returned") =>
    /\ last.result.prompt = editedTarget.prompt
    /\ last.result.imageData # 0
    /\ last.result.imageData # editedTarget.imageData
    /\ last.result.id # editedTarget.id
    /\ last.result.timestamp # editedTarget.timestamp
    /\ \A i \in 1..Len(last.before.history) :
         /\ last.result.id > last.before.history[i].id
         /\ last.result.timestamp > last.before.history[i].timestamp
    /\ slot(last.target) = last.result
    /\ history = insertedInto(last.before.history, last.result)
    /\ \A i \in 1..Len(last.before.history) :
         (last.before.history[i].id = editedTarget.id /\ i < 3) =>
           /\ history[i + 1].imageData = editedTarget.imageData
           /\ history[i + 1].id = editedTarget.id

C14_Witness ==
  /\ last.kind = "edit"
  /\ last.outcome = "returned"
  /\ Len(history) >= 2
  /\ history[1] = last.result
  /\ history[2] = editedTarget
  /\ history[2].imageData # history[1].imageData

\* C15: optimizeUserPrompt never rejects, and for a non-blank input it returns
\* the input itself, unchanged, when the API key is missing, when the remote
\* call fails and when the response text is empty (or absent); a blank input
\* gives "" and a non-empty response text is returned trimmed.
C15_OptimizeFallsBackToInput ==
  /\ optimization.settled # "rejected"
  /\ optimization.pc = "done" =>
       /\ optimization.settled = "resolved"
       /\ trim(optimization.inputPrompt) = <<>> => optimization.value = <<>>
       /\ trim(optimization.inputPrompt) # <<>> =>
            /\ optimization.remote \in {"nokey", "failed", "responded"}
            /\ optimization.remote = "nokey" => optimization.value = optimization.inputPrompt
            /\ optimization.remote = "failed" => optimization.value = optimization.inputPrompt
            /\ (optimization.remote = "responded" /\
                (~optimization.response.defined \/ optimization.response.text = <<>>)) =>
                  optimization.value = optimization.inputPrompt
            /\ (optimization.remote = "responded" /\ optimization.response.defined /\
                trim(optimization.response.text) # <<>>) =>
                  optimization.value = trim(optimization.response.text)

C15_Witness ==
  /\ optimization.pc = "done"
  /\ optimization.remote = "responded"
  /\ optimization.response = [defined |-> TRUE, text |-> <<>>]
  /\ optimization.inputPrompt = <<" ", "a", " ">>
  /\ optimization.value = <<" ", "a", " ">>

\* every pixel of an ImageData snapshot is transparent
allTransparent(imageData) == \A i \in 1..Len(imageData) : imageData[i] = Transparent

\* C16 as stated: in every state of a mounted canvas, whatever strokes, clears,
\* undos, redos and image loads came before, 0 <= cursor <= length - 1 of the
\* snapshot list and the snapshot at index 0 is the all-transparent raster.
C16_AsStated ==
  baseImage # NoImage =>
    /\ 0 <= historyStep
    /\ historyStep <= Len(historyRef) - 1
    /\ allTransparent(historyRef[1])

\* a stroke committed before the source image has loaded is the snapshot at
\* index 0
C16_Witness ==
  /\ baseImage # NoImage
  /\ loading # {}
  /\ canvasLast.op = "stroke"
  /\ historyStep = 0
  /\ Len(historyRef) = 1
  /\ ~allTransparent(historyRef[1])

\* the snapshots of h up to and including the one at step
keptBy(h, step) == slice(h, step + 1)

\* C17: committing a stroke or a clear while the cursor is k steps behind the
\* tip discards the k forward snapshots and appends one: afterwards the cursor
\* is at the tip (so redo does nothing), the new tip is the snapshot of the
\* raster, and the snapshots up to the old cursor are unchanged.
C17_CommitTruncates ==
  [][((stopDrawing /\ isDrawing) \/ clearCanvas) =>
       /\ Len(historyRef') = Len(keptBy(historyRef, historyStep)) + 1
       /\ \A i \in 1..Len(keptBy(historyRef, historyStep)) : historyRef'[i] = historyRef[i]
       /\ historyRef'[Len(historyRef')] = getImageData(raster')
       /\ historyStep' = Len(historyRef') - 1
       /\ ~(historyStep' < Len(historyRef') - 1)]_vars

C17_Witness ==
  /\ canvasLast.op = "stroke"
  /\ canvasLast.behind = 1
  /\ Len(historyRef) = 2
  /\ historyStep = 1
  /\ ~allTransparent(historyRef[2])

\* the history operations of the canvas
HistoryOps == {"stroke", "clear", "undo", "redo", "load"}

\* C18 as stated: an undo immediately after a commit (a committed stroke or a
\* clear) restores the raster to exactly the contents it had before what was
\* committed; a redo immediately after an undo restores the raster to exactly
\* its contents before the undo; and after every history operation the raster
\* equals the snapshot at the cursor.
C18_AsStated ==
  /\ [][(canvasLast.op \in {"stroke", "clear"} /\ handleUndo) =>
          raster' = canvasLast.from]_vars
  /\ [][(canvasLast.op = "undo" /\ canvasLast.effective /\ handleRedo) =>
          raster' = canvasLast.from]_vars
  /\ [](canvasLast.op \in HistoryOps =>
          /\ historyStep < Len(historyRef)
          /\ getImageData(raster) = historyRef[historyStep + 1])

\* a stroke committed into the empty history of a canvas whose image has not
\* loaded: the cursor is 0, so handleUndo cannot bring back the raster the
\* stroke was painted on
C18_Witness ==
  /\ canvasLast.op = "stroke"
  /\ canvasLast.behind = -1
  /\ raster # canvasLast.from
  /\ historyStep = 0
  /\ ~isDrawing

\* C19: handleUndo with the cursor at 0 and handleRedo with the cursor at the
\* tip change nothing: raster, snapshot list and cursor are as before and
\* onMaskReady is not called.
C19_UndoRedoAtEndsAreNoOps ==
  [][((handleUndo /\ historyStep = 0) \/ (handleRedo /\ historyStep >= Len(historyRef) - 1)) =>
       /\ raster' = raster
       /\ historyRef' = historyRef
       /\ historyStep' = historyStep
       /\ isDrawing' = isDrawing
       /\ onMaskReady' = <<>>]_vars

C19_Witness ==
  /\ canvasLast.op = "undo"
  /\ ~canvasLast.effective
  /\ canvasLast.behind = 1
  /\ historyStep = 0
  /\ Len(historyRef) = 2
  /\ onMaskReady = <<>>

\* C20 as stated: clear blanks the raster and appends exactly one snapshot
\* after the cursor, truncating the redo entries, and an undo immediately after
\* a clear restores the raster to the contents it had before the clear.
C20_AsStated ==
  /\ [][clearCanvas =>
          /\ raster' = blank(Len(raster))
          /\ Len(historyRef') = Len(keptBy(historyRef, historyStep)) + 1
          /\ \A i \in 1..Len(keptBy(historyRef, historyStep)) : historyRef'[i] = historyRef[i]
          /\ allTransparent(historyRef'[Len(historyRef')])
          /\ historyStep' = Len(historyRef') - 1]_vars
  /\ [][(canvasLast.op = "clear" /\ handleUndo) => raster' = canvasLast.from]_vars

\* a clear that arrived while a gesture was open (isDrawing set, paint not yet
\* committed), the image loaded: the snapshot an undo would restore is not the
\* raster the clear found
C20_Witness ==
  /\ canvasLast.op = "clear"
  /\ loading = {}
  /\ isDrawing
  /\ historyStep >= 1
  /\ putImageData(raster, historyRef[historyStep]) # canvasLast.from

\* the masks the latest event passed to onMaskReady
exported == {onMaskReady[k] : k \in 1..Len(onMaskReady)}

\* a pixel of the raster drawn over black, as exportMask reads it
overBlack(p) == unpremultiply(sourceOver(p, Black))

\* C21 as stated: whatever the raster held, clear followed at once by export
\* delivers a mask whose every pixel is black and whose dimensions are those of
\* the raster, which are the pixel dimensions of the source image.
C21_AsStated ==
  [][clearCanvas =>
       /\ Len(onMaskReady') = 1
       /\ \A i \in 1..Len(onMaskReady'[1]) : onMaskReady'[1][i] = Black
       /\ Len(onMaskReady'[1]) = Len(raster')
       /\ Len(onMaskReady'[1]) = baseImage']_vars

\* a clear before the source image has loaded: the mask delivered is all black
\* but has the size of the unsized canvas, not of the source image
C21_Witness ==
  /\ canvasLast.op = "clear"
  /\ loading # {}
  /\ Len(onMaskReady) = 1
  /\ \A i \in 1..Len(onMaskReady[1]) : onMaskReady[1][i] = Black
  /\ Len(onMaskReady[1]) # baseImage

\* C22 as stated: every pixel of every exported mask is pure white or pure
\* black; it is white iff some colour channel of the raster drawn over black
\* exceeds the threshold; every pixel painted with the highlight colour is
\* exported white.
C22_AsStated ==
  \A mask \in exported :
    \A i \in 1..Len(mask) :
      /\ mask[i] \in {White, Black}
      /\ mask[i] = White <=> \E ch \in 1..3 : overBlack(raster[i])[ch] > MaskThreshold
      /\ raster[i] # Transparent => mask[i] = White

\* a committed stroke whose painted pixel is exported neither white nor black:
\* its red channel over black is 4, which is not above the threshold
C22_Witness ==
  /\ canvasLast.op = "stroke"
  /\ Len(onMaskReady) = 1
  /\ \E i \in 1..Len(raster) :
       /\ raster[i] = premultiply(Highlight)
       /\ onMaskReady[1][i] = <<4, 128, 149, 255>>

C24_CallbackOncePerChange ==
  /\ (\/ canvasLast.op \in {"stroke", "clear"}
      \/ canvasLast.op \in {"undo", "redo"} /\ canvasLast.effective) =>
       onMaskReady = <<maskOf(raster)>>
  /\ canvasLast.op \in {"down", "move"} => onMaskReady = <<>>

\* an effective redo has just delivered the mask of the painted raster it
\* restored
C24_Witness ==
  /\ canvasLast.op = "redo"
  /\ canvasLast.effective
  /\ raster # canvasLast.from
  /\ \E i \in 1..Len(raster) : raster[i] # Transparent
  /\ onMaskReady = <<maskOf(raster)>>

\* C25: a gesture appends exactly one snapshot, when it ends: pointer-down and
\* pointer-move leave the snapshot list and the cursor alone, the first
\* pointer-up, pointer-leave or touch-end of an open gesture appends one
\* snapshot after the cursor and closes the gesture, and one that finds no
\* gesture open appends none (canvasLast'.op names the event of the step:
\* "stroke" is stopDrawing with a gesture open, "stop" without).
C25_OneSnapshotPerGesture ==
  [][/\ canvasLast'.op \in {"down", "move"} =>
          /\ historyRef' = historyRef
          /\ historyStep' = historyStep
     /\ canvasLast'.op = "stroke" =>
          /\ isDrawing
          /\ historyRef' = Append(keptBy(historyRef, historyStep), getImageData(raster))
          /\ historyStep' = Len(historyRef') - 1
          /\ ~isDrawing'
     /\ canvasLast'.op = "stop" =>
          /\ ~isDrawing
          /\ historyRef' = historyRef
          /\ historyStep' = historyStep
          /\ ~isDrawing']_vars

\* a gesture with a painting move was committed on a loaded canvas: one
\* snapshot after the blank one
C25_Witness ==
  /\ canvasLast.op = "stroke"
  /\ loading = {}
  /\ nCommits = 1
  /\ Len(historyRef) = 2
  /\ historyStep = 1
  /\ ~allTransparent(historyRef[2])
  /\ ~isDrawing

\* C26: each time a source image finishes loading, the raster is blank with
\* the pixel dimensions of that image, the snapshot list is exactly the one
\* blank snapshot and the cursor is 0, whatever strokes and history there were.
C26_LoadResets ==
  [][ImageLoaded =>
       \E img \in loading :
         /\ loading' = loading \ {img}
         /\ raster' = blank(img)
         /\ Len(raster') = img
         /\ Len(historyRef') = 1
         /\ Len(historyRef'[1]) = img
         /\ allTransparent(historyRef'[1])
         /\ historyStep' = 0]_vars

\* the second image has loaded over a canvas that held a stroke and an undone
\* snapshot of the first image
C26_Witness ==
  /\ canvasLast.op = "load"
  /\ canvasLast.behind = 1
  /\ nLoads = 2
  /\ nCommits >= 1
  /\ loading = {}
  /\ raster = blank(baseImage)
  /\ historyRef = <<getImageData(blank(baseImage))>>
  /\ historyStep = 0

\* C29 as stated: the history has bounded depth: the number of stored snapshots
\* never exceeds a fixed bound D, however many strokes and clears are
\* committed. D is taken as large as the number of commits explored.
C29_AsStated == Len(historyRef) <= MaxCommits

\* every commit explored added a snapshot to the blank one: the depth is the
\* number of commits plus one
C29_Witness ==
  /\ loading = {}
  /\ nCommits = MaxCommits
  /\ Len(historyRef) = MaxCommits + 1
  /\ historyStep = MaxCommits

\* the user-facing message the taxonomy assigns to a class
errorKeyedBy(class, msg) ==
  IF class = "quota_exceeded" THEN QuotaMessage
  ELSE IF class = "safety_blocked" THEN SafetyMessage
  ELSE <<"Generation Failed: ">> \o substring(msg, ErrorDetailLen) \o <<"...">>

\* C30 as stated: the class of a failed attempt depends on the failure text
\* alone, the same on attempt 1, 2 and 3; and when the attempt ends the
\* retrier, the error of the result is the message keyed by that class: the
\* quota message for quota_exceeded, the Safety Block message for
\* safety_blocked, the generic message with the first 100 characters of the
\* text for every other class.
C30_AsStated ==
  [][\A t \in generateTasks : \A msg \in FailureMessages :
       (t.pc = "img" /\ attemptFailed(t, msg)) =>
         /\ \A u \in tasks' :
              u.tid = t.tid => u.outcomes[Len(u.outcomes)] = Classify(msg)
         /\ (\A u \in tasks' : u.tid # t.tid) =>
              /\ last'.outcomes[Len(last'.outcomes)] = Classify(msg)
              /\ last'.result.error = errorKeyedBy(Classify(msg), msg)]_vars

\* three attempts failed with a text that carries an overload signal and a
\* safety signal: each was retried as overloaded, and the result carries the
\* Safety Block message
C30_Witness ==
  /\ last.kind = "generate"
  /\ last.outcome = "returned"
  /\ last.outcomes = <<"overloaded", "overloaded", "overloaded">>
  /\ last.delays = <<2000, 4000>>
  /\ last.result.error = SafetyMessage

\* the five supported ratios w : h, in the order they are listed
Ratios ==
  << [id |-> "1:1", w |-> 1, h |-> 1], [id |-> "3:4", w |-> 3, h |-> 4],
     [id |-> "4:3", w |-> 4, h |-> 3], [id |-> "9:16", w |-> 9, h |-> 16],
     [id |-> "16:9", w |-> 16, h |-> 9] >>

\* |width / height - r.w / r.h| * height, as a fraction n / d
distance(r, width, height) ==
  [n |-> IF width * r.h < r.w * height THEN r.w * height - width * r.h
         ELSE width * r.h - r.w * height,
   d |-> r.h]

\* fraction a is smaller than fraction b
fractionLess(a, b) == a.n * b.d < b.n * a.d

\* the first listed of the ratios nearest to width / height
nearest(width, height) ==
  Ratios[CHOOSE i \in 1..Len(Ratios) :
           /\ \A j \in 1..Len(Ratios) :
                ~fractionLess(distance(Ratios[j], width, height),
                              distance(Ratios[i], width, height))
           /\ \A j \in 1..(i - 1) :
                fractionLess(distance(Ratios[i], width, height),
                             distance(Ratios[j], width, height))].id

\* C27 as stated: getBestAspectRatio returns "1:1" when width or height is
\* missing or zero; otherwise the ratio among 1:1, 3:4, 4:3, 9:16, 16:9 whose
\* value has the smallest absolute difference from width / height, the first
\* listed one on a tie (1000x1000 gives 1:1, 1600x900 16:9, 900x1600 9:16).
C27_AsStated ==
  aspect # NoAspect =>
    aspect.id = IF falsy(aspect.width) \/ falsy(aspect.height) THEN "1:1"
                ELSE nearest(aspect.width, aspect.height)

\* a 1400 x 900 sketch: 14/9 lies midway between 4/3 and 16/9, and the result
\* is 16:9, not the first listed 4:3
C27_Witness ==
  /\ aspect.width = 14
  /\ aspect.height = 9
  /\ nearest(14, 9) = "4:3"
  /\ aspect.id = "16:9"

\* relative error an exact result keeps through four roundings: 2^-50
ToleranceBits == 50

\* doubles a >= 0 and b >= 0 differ by at most b * 2^-ToleranceBits
closeTo(a, b) ==
  LET x == aligned(a, b)
      diff == IF natLess(x.a, x.b) THEN natSub(x.b, x.a) ELSE natSub(x.a, x.b) IN
  ~natLess(x.b, natShl(diff, ToleranceBits))

\* a raster coordinate mapped back by the inverse scale box / raster
back(coordinate, box, size) == numMul(coordinate, numDiv(num(box), num(size)))

\* the double c times the integer k, exactly (not rounded)
times(c, k) == [c EXCEPT !.m = natMulSmall(c.m, k)]

\* C28 as stated: for every scale raster width / on-screen width and every
\* pointer position inside the box, the painted coordinate is
\* (screen_x - box.left) * (raster.width / box.width), symmetric for y; mapping
\* it back by the inverse scale yields the original display point; the brush
\* width is scaled by the same horizontal ratio.
C28_AsStated ==
  pointer # NoPointer =>
    LET scaleX == numDiv(num(pointer.canvas.width), num(pointer.rect.width))
        scaleY == numDiv(num(pointer.canvas.height), num(pointer.rect.height)) IN
    /\ pointer.x = numMul(num(pointer.clientX - pointer.rect.left), scaleX)
    /\ pointer.y = numMul(num(pointer.clientY - pointer.rect.top), scaleY)
    /\ back(pointer.x, pointer.rect.width, pointer.canvas.width)
         = num(pointer.clientX - pointer.rect.left)
    /\ back(pointer.y, pointer.rect.height, pointer.canvas.height)
         = num(pointer.clientY - pointer.rect.top)
    /\ pointer.lineWidth = numMul(num(pointer.brushSize), scaleX)

\* C28 amended: the painted coordinate is the double the expression
\* (screen_x - box.left) * (raster.width / box.width) evaluates to, symmetric
\* for y, which is the exact product within floating-point tolerance; mapping
\* it back by the inverse scale yields the original display point within
\* floating-point tolerance (a relative error of at most 2^-50), not always
\* exactly; the brush width is scaled by the same horizontal ratio.
C28_MappingInvertible ==
  pointer # NoPointer =>
    LET scaleX == numDiv(num(pointer.canvas.width), num(pointer.rect.width))
        scaleY == numDiv(num(pointer.canvas.height), num(pointer.rect.height))
        dx == pointer.clientX - pointer.rect.left
        dy == pointer.clientY - pointer.rect.top IN
    /\ pointer.x = numMul(num(dx), scaleX)
    /\ pointer.y = numMul(num(dy), scaleY)
    /\ closeTo(times(pointer.x, pointer.rect.width), num(dx * pointer.canvas.width))
    /\ closeTo(times(pointer.y, pointer.rect.height), num(dy * pointer.canvas.height))
    /\ closeTo(back(pointer.x, pointer.rect.width, pointer.canvas.width), num(dx))
    /\ closeTo(back(pointer.y, pointer.rect.height, pointer.canvas.height), num(dy))
    /\ pointer.lineWidth = numMul(num(pointer.brushSize), scaleX)
    /\ closeTo(times(pointer.lineWidth, pointer.rect.width),
               num(pointer.brushSize * pointer.canvas.width))

\* a pointer 3 pixels into a box 5 wide that shows a raster 1 wide, the box not
\* at the origin: 3 * (1 / 5) mapped back is 3.0000000000000004
C28_Witness ==
  /\ pointer # NoPointer
  /\ pointer.rect.left = 1
  /\ pointer.rect.width = 5
  /\ pointer.canvas.width = 1
  /\ pointer.clientX = 4
  /\ back(pointer.x, 5, 1) # num(3)
  /\ closeTo(back(pointer.x, 5, 1), num(3))

\* image-synthesis calls of an invocation that were issued and have not settled
inFlight(t) == t.attempt - Len(t.outcomes)

\* C31: the attempts of an invocation are strictly sequential: at every moment
\* at most one of its image-synthesis calls is in flight, and attempt n+1 is
\* issued only in the step in which the delay after attempt n elapses, attempt
\* n having failed before that delay began.
C31_AttemptsSequential ==
  /\ [](\A t \in generateTasks :
          /\ inFlight(t) \in {0, 1}
          /\ inFlight(t) = 1 <=> t.pc = "img")
  /\ [][\A t \in generateTasks : \A u \in tasks' :
          (u.tid = t.tid /\ u.attempt > t.attempt /\ t.attempt >= 1) =>
            /\ u.attempt = t.attempt + 1
            /\ t.pc = "wait"
            /\ inFlight(t) = 0
            /\ t.outcomes[t.attempt] # "ok"
            /\ Len(t.delays) = t.attempt
            /\ u.pc = "img"]_vars

C31_Witness ==
  \E t \in generateTasks :
    /\ t.pc = "img"
    /\ t.attempt = 3
    /\ t.outcomes = <<"overloaded", "quota_exceeded">>
    /\ t.delays = <<2000, 4000>>
    /\ t.calls = 4

\* the last attempt of a completed invocation returned image data
imageSucceeded(l) == l.attempts >= 1 /\ l.outcomes[l.attempts] = "ok"

\* C32: every PromptResult returned by generate has exactly one of image and
\* error: when an attempt succeeds the result has the text and the image and no
\* error; when the image step fails (preparation, or the attempt that ends the
\* loop) it has an error and no image; none has both or neither.
C32_ImageXorError ==
  (last.kind = "generate" /\ last.outcome = "returned") =>
    /\ last.result # NoResult
    /\ (last.result.imageData # 0) # (last.result.error # NoError)
    /\ imageSucceeded(last) =>
         /\ last.result.prompt # <<>>
         /\ last.result.imageData # 0
         /\ last.result.error = NoError
    /\ ~imageSucceeded(last) =>
         /\ last.result.error # NoError
         /\ last.result.imageData = 0
    /\ result = last.result

C32_Witness ==
  /\ last.kind = "generate"
  /\ last.outcomes = <<"quota_exceeded", "ok">>
  /\ result.imageData # 0
  /\ result.error = NoError
  /\ result.prompt = <<"Prompt generation failed.">>

\* C35 as stated: if the error of a PromptResult returned by generate is the
\* Safety Block message, then the invocation made exactly one image-synthesis
\* attempt and waited no retry delay, whatever the failure texts were.
C35_AsStated ==
  (last.kind = "generate" /\ last.outcome = "returned" /\
   last.result.error = SafetyMessage) =>
    /\ last.attempts = 1
    /\ last.delays = <<>>

\* a Safety Block result after two quota failures and a third failure whose
\* text carries an overload signal together with a safety signal
C35_Witness ==
  /\ last.kind = "generate"
  /\ last.outcomes = <<"quota_exceeded", "quota_exceeded", "overloaded">>
  /\ last.delays = <<2000, 4000>>
  /\ result.error = SafetyMessage
  /\ result.imageData = 0

\* C36 as stated: whenever a generate, style or masked-edit operation completes
\* successfully (it delivers a result with an image), the error indicator is
\* null afterwards, whatever error an earlier operation had left displayed.
C36_AsStated ==
  [][(last' # last /\ last'.outcome = "returned" /\ last'.result.imageData # 0) =>
       error' = NoError]_vars

\* a masked edit has succeeded and the error of an earlier failure is still shown
C36_Witness ==
  /\ last.kind = "edit"
  /\ last.outcome = "returned"
  /\ last.result.imageData # 0
  /\ slot(last.target) = last.result
  /\ status = "idle"
  /\ error = errorGeneric

\* a generate invocation is in flight before or after the step
generating == \E t \in tasks \cup tasks' : t.kind = "generate"

\* C37: a generate invocation that fails (its service call rejects: the
\* analysis call or the processing of an input image fails, or the API key is
\* missing) leaves the history exactly as it was: no step from its start to its
\* failure changes it; and both result slots are empty afterwards, whatever
\* they held before the invocation.
C37_FailedGenerateFrame ==
  /\ []((last.kind = "generate" /\ last.outcome = "threw") =>
          /\ last.result = NoResult
          /\ result = NoResult
          /\ styledResult = NoResult)
  /\ [][(generating /\ ~(last' # last /\ last'.outcome = "returned")) =>
          history' = history]_vars

\* the third invocation, a generate whose analysis failed, after a generate
\* and a style application that had filled both slots
C37_Witness ==
  /\ nInv = 3
  /\ last.kind = "generate"
  /\ last.outcome = "threw"
  /\ last.analysis = "failed"
  /\ Len(history) = 2
  /\ history[1].prompt[1] = "[MASTER FILTER APPLIED] "
  /\ result = NoResult
  /\ styledResult = NoResult
  /\ tasks = {}

\* C38: a successful masked edit replaces exactly the slot that was the editing
\* target when the edit was started and leaves the other slot as it is, also
\* when edit mode was cancelled while the request was in flight.
C38_EditReplacesItsTarget ==
  [][\A t \in tasks :
       (t.kind = "edit" /\ t \notin tasks' /\ last'.outcome = "returned") =>
         /\ t.target \in Cards
         /\ last'.result.imageData # t.source.imageData
         /\ t.target = "original" =>
              /\ result = t.source
              /\ result' = last'.result
              /\ styledResult' = styledResult
         /\ t.target = "styled" =>
              /\ styledResult = t.source
              /\ styledResult' = last'.result
              /\ result' = result]_vars

\* the edit of the original card in flight after its edit mode was cancelled,
\* the styled slot holding a result
C38_Witness ==
  /\ editingTarget = NoTarget
  /\ status = "editing"
  /\ styledResult # NoResult
  /\ \E t \in tasks :
       /\ t.kind = "edit" /\ t.pc = "remote"
       /\ t.target = "original"
       /\ t.source = result

\* C39: a style remote call is issued only for a source result that has an
\* image, and its completion writes only the styled slot; when the selected
\* source has no image the handler issues no style call and hands the style
\* instruction to handleGenerate as its override.
C39_StyleOnlyWithImage ==
  /\ [](\A t \in tasks :
          t.kind = "style" => (t.source # NoResult /\ t.source.imageData # 0))
  /\ [][\A t \in tasks :
          (t.kind = "style" /\ t \notin tasks' /\ last'.outcome = "returned") =>
            /\ styledResult' = last'.result
            /\ result' = result]_vars
  /\ [][\A c \in Cards : \A style \in Styles :
          (slot(c).imageData = 0 /\ handleMasterStyleClick(c, style)) =>
            /\ \A u \in tasks' \ tasks : u.kind = "generate" /\ u.calls = 0
            /\ handleGenerate(style)
            /\ Len(sketch) # 0 =>
                 \E u \in tasks' \ tasks :
                   /\ u.masterStylePrompt = style
                   /\ result' = NoResult /\ styledResult' = NoResult]_vars

\* the pipeline started by a filter on a result without image, at its image
\* attempt, with the style instruction as override
C39_Witness ==
  /\ history # <<>>
  /\ history[1].imageData = 0
  /\ \E t \in tasks :
       /\ t.kind = "generate"
       /\ t.masterStylePrompt = <<"noir">>
       /\ t.pc = "img"
       /\ t.calls = 2

\* the completed invocation was rejected by getAIClient: it threw before the
\* analysis began and without any remote call
keyMissing(l) == l.outcome = "threw" /\ l.calls = 0 /\ l.analysis = "pending"

\* The orchestrator's part of C33: an invocation of generate, style or edit
\* started while no key is configured is rejected before any remote call; the
\* step that rejects it shows the error, brings status back to idle and leaves
\* the slots and the history, and no step of the invocation changes the history
\* or creates a result.
failsFastWithoutKey ==
  /\ [](\A t \in tasks : t.pc = "nokey" => (t.calls = 0 /\ t.attempt = 0))
  /\ [][\A u \in tasks' :
          (nInv' = nInv + 1 /\ u.tid = nInv') => (u.pc = "nokey" <=> ~apiKey)]_vars
  /\ [][\A t \in tasks :
          (t.pc = "nokey" /\ t \notin tasks') =>
            /\ tasks' = tasks \ {t}
            /\ keyMissing(last')
            /\ last'.kind = t.kind
            /\ last'.result = NoResult
            /\ error' = errorGeneric
            /\ status' = "idle"
            /\ result' = result
            /\ styledResult' = styledResult]_vars
  /\ [][(\E t \in tasks \cup tasks' : t.pc = "nokey") =>
          (history' = history /\ now' = now)]_vars
  /\ [](optimization.pc # "remote")

C34_AsStated ==
  \A c \in Cards :
    applyEnabled(c) => localEditMask[c] = maskOf(raster)

\* Apply is enabled in a session whose canvas has handled no event yet (its
\* image has not even loaded): the mask held was exported in an earlier
\* session, on another image, and shows paint the new canvas does not have
C34_Witness ==
  /\ editingTarget = "original"
  /\ applyEnabled("original")
  /\ canvasLast.op = "mount"
  /\ loading # {}
  /\ raster = blank(DefaultPixels)
  /\ localEditMask["original"] # maskOf(raster)
  /\ \E i \in 1..Len(localEditMask["original"]) : localEditMask["original"][i] # Black
  /\ last.kind = "edit"
  /\ last.outcome = "returned"

====
